---- MODULE Spec2Model ----
(***************************************************************************)
(* Model of the backlink agent (src/main.py): the risk classifier, the CSV *)
(* importer with its schema mapper, the summary (aggregation) of the       *)
(* Backlink table, the handlers that read the table, and the competitor    *)
(* gap analysis.                                                           *)
(*                                                                         *)
(* Python values are modelled as tagged records, so that a field that may  *)
(* hold values of several Python types stays comparable:                   *)
(*   None            the Python None / a NULL column                       *)
(*   NaN             the float nan pandas puts in a blank CSV cell         *)
(*   PyInt(n)        an int                                                *)
(*   PyFlt(t)        a float, given in tenths (PyFlt(255) is 25.5)         *)
(*   PyBool(b)       a bool                                                *)
(*   PyStr(s)        a str, s the sequence of its characters               *)
(***************************************************************************)
EXTENDS Integers, Sequences, FiniteSets, TLC

VARIABLES
    store,   \* the rows of the Backlink table (committed), in insertion order
    imp,     \* the import request in progress: its frame, loop position and session
    resp,    \* the response of the last request that answered
    args,    \* the arguments of the pure function under check (pure specifications)
    gaplinks, \* the rows of the CompetitorGapLink table (committed), in insertion order
    salt,    \* the key of this process's str hash (drawn when the process starts)
    gsc,     \* the GSC analyzer of this process (service set or not) and the
             \* rows of the GSCAnalysis table (committed)
    req      \* the competitor_analyze request each worker thread is serving:
             \* its gaps, loop position and session

vars == <<store, imp, resp, args, gaplinks, salt, gsc, req>>

None == [none |-> TRUE]
NaN == [nan |-> TRUE]
PyInt(n) == [int |-> n]
PyFlt(t) == [flt |-> t]
PyBool(b) == [bool |-> b]
PyStr(s) == [str |-> s]

IsInt(v) == DOMAIN v = {"int"}
IsFlt(v) == DOMAIN v = {"flt"}
IsBool(v) == DOMAIN v = {"bool"}
IsStr(v) == DOMAIN v = {"str"}

\* Python truthiness (bool(x)): None, 0, 0.0, False and "" are false; nan is true.
Truthy(v) ==
    IF v = None THEN FALSE
    ELSE IF v = NaN THEN TRUE
    ELSE IF IsInt(v) THEN v.int # 0
    ELSE IF IsFlt(v) THEN v.flt # 0
    ELSE IF IsBool(v) THEN v.bool
    ELSE Len(v.str) > 0

(***************************************************************************)
(* String literals of the source, as character sequences.                  *)
(***************************************************************************)
sFooter == <<"f","o","o","t","e","r">>
sSidebar == <<"s","i","d","e","b","a","r">>
sEditorial == <<"e","d","i","t","o","r","i","a","l">>
sContextual == <<"c","o","n","t","e","x","t","u","a","l">>
sHigh == <<"h","i","g","h">>
sMedium == <<"m","e","d","i","u","m">>
sLow == <<"l","o","w">>

(***************************************************************************)
(* calculate_risk_level                                                    *)
(***************************************************************************)
\* `link_type in ["footer", "sidebar"]`: list membership is by equality, so only
\* a str equal to one of the two matches (None and nan do not).
InFooterSidebar(link_type) ==
    IsStr(link_type) /\ link_type.str \in {sFooter, sSidebar}

\* The classifier with rules 3 and 4 exchanged (thresholds kept, precedence lost).
calculate_risk_level_reordered(domain_authority, nofollow, link_type) ==
    LET da == IF domain_authority = None THEN 0 ELSE domain_authority.int IN
    IF da < 10 THEN PyStr(sHigh)
    ELSE IF Truthy(nofollow) /\ da < 20 THEN PyStr(sHigh)
    ELSE IF da < 30 THEN PyStr(sMedium)
    ELSE IF InFooterSidebar(link_type) /\ da < 30 THEN PyStr(sHigh)
    ELSE IF InFooterSidebar(link_type) THEN PyStr(sMedium)
    ELSE PyStr(sLow)

\* The classifier without the footer/sidebar high-risk rule (rule 3 dropped).
calculate_risk_level_norule3(domain_authority, nofollow, link_type) ==
    LET da == IF domain_authority = None THEN 0 ELSE domain_authority.int IN
    IF da < 10 THEN PyStr(sHigh)
    ELSE IF Truthy(nofollow) /\ da < 20 THEN PyStr(sHigh)
    ELSE IF da < 30 THEN PyStr(sMedium)
    ELSE IF InFooterSidebar(link_type) THEN PyStr(sMedium)
    ELSE PyStr(sLow)

\* The classifier with a fourth tier for the lowest authorities.
calculate_risk_level_critical(domain_authority, nofollow, link_type) ==
    LET da == IF domain_authority = None THEN 0 ELSE domain_authority.int IN
    IF da < 10 THEN PyStr(<<"c","r","i","t","i","c","a","l">>)
    ELSE IF Truthy(nofollow) /\ da < 20 THEN PyStr(sHigh)
    ELSE IF InFooterSidebar(link_type) /\ da < 30 THEN PyStr(sHigh)
    ELSE IF da < 30 THEN PyStr(sMedium)
    ELSE IF InFooterSidebar(link_type) THEN PyStr(sMedium)
    ELSE PyStr(sLow)

calculate_risk_level(domain_authority, nofollow, link_type) ==
    LET da == IF domain_authority = None THEN 0 ELSE domain_authority.int IN
    IF da < 10 THEN PyStr(sHigh)
    ELSE IF Truthy(nofollow) /\ da < 20 THEN PyStr(sHigh)
    ELSE IF InFooterSidebar(link_type) /\ da < 30 THEN PyStr(sHigh)
    ELSE IF da < 30 THEN PyStr(sMedium)
    ELSE IF InFooterSidebar(link_type) THEN PyStr(sMedium)
    ELSE PyStr(sLow)

(***************************************************************************)
(* Specification SpecRisk: the classifier applied to every input triple.   *)
(***************************************************************************)
MaxDA == 100

NoImport == [pc |-> "idle"]
NoResp == [kind |-> "none"]
NoArgs == [fn |-> "none"]
\* gsc_analyzer = None (a GoogleSearchConsoleAnalyzer is created with service
\* None on first use) and an empty GSCAnalysis table.
NoGsc == [service |-> FALSE, analyses |-> <<>>]
\* The threads of the pool that run the synchronous handlers, none serving a
\* competitor_analyze request.
Workers == {1, 2}
NoRequests == [w \in Workers |-> [pc |-> "idle"]]

RiskDAs == {None} \cup {PyInt(n) : n \in 0..MaxDA}
RiskNofollows == {None, PyBool(TRUE), PyBool(FALSE)}
RiskLinkTypes == {None, PyStr(sFooter), PyStr(sSidebar), PyStr(sEditorial), PyStr(sContextual)}

InitRisk ==
    /\ store = <<>>
    /\ imp = NoImport
    /\ resp = NoResp
    /\ args \in [fn : {"risk"}, domain_authority : RiskDAs,
                 nofollow : RiskNofollows, link_type : RiskLinkTypes]
    /\ gaplinks = <<>>
    /\ salt = 0
    /\ gsc = NoGsc
    /\ req = NoRequests

ClassifyRisk ==
    /\ args.fn = "risk"
    /\ resp = NoResp
    /\ resp' = [kind |-> "risk",
                value |-> calculate_risk_level(args.domain_authority, args.nofollow,
                                               args.link_type)]
    /\ UNCHANGED <<store, imp, args, gaplinks, salt, gsc, req>>

NextRisk == ClassifyRisk

SpecRisk == InitRisk /\ [][NextRisk]_vars

\* The DA the rules read: an absent domain_authority counts as 0.
ArgDA == IF args.domain_authority = None THEN 0 ELSE args.domain_authority.int
ArgFooterSidebar == args.link_type \in {PyStr(sFooter), PyStr(sSidebar)}
ArgHigh ==
    \/ ArgDA < 10
    \/ (args.nofollow = PyBool(TRUE) /\ ArgDA < 20)
    \/ (ArgFooterSidebar /\ ArgDA < 30)
ArgMedium == ~ArgHigh /\ (ArgDA < 30 \/ ArgFooterSidebar)

\* C1: for every input triple (DA absent or 0..100, nofollow true/false/absent,
\* link_type footer/sidebar/editorial/contextual/absent) calculate_risk_level
\* returns high iff DA < 10, or nofollow and DA < 20, or footer/sidebar and
\* DA < 30; otherwise medium iff DA < 30 or footer/sidebar; otherwise low.
C1_RiskTable ==
    resp.kind = "risk" =>
        /\ (resp.value = PyStr(sHigh)) <=> ArgHigh
        /\ (resp.value = PyStr(sMedium)) <=> ArgMedium
        /\ (resp.value = PyStr(sLow)) <=> (~ArgHigh /\ ~ArgMedium)

\* C1 witness: a sidebar link at DA 35 has been classified (rule 5: medium).
C1_Witness ==
    /\ resp.kind = "risk"
    /\ args.domain_authority = PyInt(35)
    /\ args.link_type = PyStr(sSidebar)
    /\ resp.value = PyStr(sMedium)

IsFooter25 ==
    /\ args.fn = "risk"
    /\ args.domain_authority = PyInt(25)
    /\ args.nofollow = PyBool(FALSE)
    /\ args.link_type = PyStr(sFooter)

\* C2 (as stated): classifyRisk(25, false, "footer") returns medium.
C2_Footer25Medium ==
    (resp.kind = "risk" /\ IsFooter25) => resp.value = PyStr(sMedium)

\* C2 (amended): classifyRisk(25, false, "footer") returns high, because rule 3
\* (footer/sidebar and DA < 30) fires before rules 4 and 5 are reached.
C2_Footer25High ==
    (resp.kind = "risk" /\ IsFooter25) => resp.value = PyStr(sHigh)

\* C2 witness: the footer link at DA 25, nofollow false, has been classified.
C2_Witness ==
    resp.kind = "risk" /\ IsFooter25 /\ resp.value = PyStr(sHigh)

(***************************************************************************)
(* str operations used by the summary and the importer                     *)
(***************************************************************************)
UpperChars == <<"A","B","C","D","E","F","G","H","I","J","K","L","M",
                "N","O","P","Q","R","S","T","U","V","W","X","Y","Z">>
LowerChars == <<"a","b","c","d","e","f","g","h","i","j","k","l","m",
                "n","o","p","q","r","s","t","u","v","w","x","y","z">>
WhitespaceChars == {" ", "\t", "\n"}

LowerChar(c) ==
    IF \E i \in DOMAIN UpperChars : UpperChars[i] = c
    THEN LowerChars[CHOOSE i \in DOMAIN UpperChars : UpperChars[i] = c]
    ELSE c

\* s.lower()
Lower(s) == [i \in DOMAIN s |-> LowerChar(s[i])]

\* s.startswith(p)
StartsWith(s, p) == Len(s) >= Len(p) /\ SubSeq(s, 1, Len(p)) = p

\* k in s (substring test)
Contains(s, k) ==
    \E i \in 0..(Len(s) - Len(k)) : SubSeq(s, i + 1, i + Len(k)) = k

\* len(s.split()): the number of maximal runs of non-whitespace characters,
\* counted at the first character of each run.
SplitCount(s) ==
    Cardinality({i \in DOMAIN s :
        /\ s[i] \notin WhitespaceChars
        /\ (i = 1 \/ s[i - 1] \in WhitespaceChars)})

\* s.strip(): leading and trailing whitespace removed.
Strip(s) ==
    LET keep == {i \in DOMAIN s : s[i] \notin WhitespaceChars} IN
    IF keep = {} THEN <<>>
    ELSE SubSeq(s, CHOOSE i \in keep : \A j \in keep : i <= j,
                   CHOOSE i \in keep : \A j \in keep : i >= j)

(***************************************************************************)
(* backlinks_summary                                                       *)
(***************************************************************************)
sHttp == <<"h","t","t","p">>
sClickHere == <<"c","l","i","c","k"," ","h","e","r","e">>
sReadMore == <<"r","e","a","d"," ","m","o","r","e">>
sVisitSite == <<"v","i","s","i","t"," ","s","i","t","e">>
sBrand == <<"b","r","a","n","d">>
sInc == <<"i","n","c">>
sLlc == <<"l","l","c">>

GenericPhrases == {sClickHere, sReadMore, sVisitSite}
BrandWords == {sBrand, sInc, sLlc}
BucketNames == {"Branded", "Exact Match", "Partial Match", "Generic", "Naked URL"}

\* (r.anchor_text or "").lower()
AnchorOf(r) ==
    IF Truthy(r.anchor_text) THEN Lower(r.anchor_text.str) ELSE <<>>

Bump(buckets, name) == [buckets EXCEPT ![name] = @ + 1]

\* The bucket step written with independent ifs for the last three buckets
\* (elif/else lost): one anchor can be counted twice, or as Partial Match too.
CountAnchor_independent(buckets, a) ==
    IF Len(a) = 0 \/ StartsWith(a, sHttp) THEN Bump(buckets, "Naked URL")
    ELSE IF SplitCount(a) = 1 THEN Bump(buckets, "Exact Match")
    ELSE
        LET g == \E k \in GenericPhrases : Contains(a, k)
            b == \E k \in BrandWords : Contains(a, k)
            b1 == IF g THEN Bump(buckets, "Generic") ELSE buckets
            b2 == IF b THEN Bump(b1, "Branded") ELSE b1
        IN  IF ~b THEN Bump(b2, "Partial Match") ELSE b2

\* The bucket step with the Branded test placed before the Generic test.
CountAnchor_brandfirst(buckets, a) ==
    IF Len(a) = 0 \/ StartsWith(a, sHttp) THEN Bump(buckets, "Naked URL")
    ELSE IF SplitCount(a) = 1 THEN Bump(buckets, "Exact Match")
    ELSE IF \E k \in BrandWords : Contains(a, k) THEN Bump(buckets, "Branded")
    ELSE IF \E k \in GenericPhrases : Contains(a, k) THEN Bump(buckets, "Generic")
    ELSE Bump(buckets, "Partial Match")

\* The if/elif chain on the lower-cased anchor a: one bucket is incremented.
CountAnchor(buckets, a) ==
    IF Len(a) = 0 \/ StartsWith(a, sHttp) THEN Bump(buckets, "Naked URL")
    ELSE IF SplitCount(a) = 1 THEN Bump(buckets, "Exact Match")
    ELSE IF \E k \in GenericPhrases : Contains(a, k) THEN Bump(buckets, "Generic")
    ELSE IF \E k \in BrandWords : Contains(a, k) THEN Bump(buckets, "Branded")
    ELSE Bump(buckets, "Partial Match")

\* The risk step that counts every record, an absent level under "low".
CountRisk_always(by_risk, r) ==
    LET k == IF Truthy(r.risk_level) THEN r.risk_level.str ELSE sLow IN
    IF k \in DOMAIN by_risk THEN [by_risk EXCEPT ![k] = @ + 1]
    ELSE by_risk @@ (k :> 1)

\* if r.risk_level: by_risk[r.risk_level] = by_risk.get(r.risk_level, 0) + 1
CountRisk(by_risk, r) ==
    IF Truthy(r.risk_level)
    THEN LET k == r.risk_level.str IN
         IF k \in DOMAIN by_risk THEN [by_risk EXCEPT ![k] = @ + 1]
         ELSE by_risk @@ (k :> 1)
    ELSE by_risk

\* The `for r in rows` loop, from row i on.
RECURSIVE SummaryLoop(_, _, _)
SummaryLoop(rows, i, acc) ==
    IF i > Len(rows) THEN acc
    ELSE SummaryLoop(rows, i + 1,
            [by_risk |-> CountRisk(acc.by_risk, rows[i]),
             anchor_buckets |-> CountAnchor(acc.anchor_buckets, AnchorOf(rows[i]))])

RECURSIVE SumDA(_, _)
\* sum([r.domain_authority or 0 for r in rows]), from row i on
SumDA(rows, i) ==
    IF i > Len(rows) THEN 0
    ELSE (IF Truthy(rows[i].domain_authority) THEN rows[i].domain_authority.int ELSE 0)
         + SumDA(rows, i + 1)

\* int(a / b) for b > 0: the quotient truncated toward zero.
IntOfQuotient(a, b) == IF a >= 0 THEN a \div b ELSE -((-a) \div b)

\* The summary without the `if total else 0` guard: the division raises on an
\* empty table (ZeroDivisionError, answered as a 500).
backlinks_summary_noguard(rows) ==
    IF Len(rows) = 0 THEN [kind |-> "error", status |-> 500] ELSE
    LET total == Len(rows)
        acc == SummaryLoop(rows, 1,
                  [by_risk |-> [k \in {sLow, sMedium, sHigh} |-> 0],
                   anchor_buckets |-> [b \in BucketNames |-> 0]])
        healthy == acc.by_risk[sLow]
        warning == acc.by_risk[sMedium]
        toxic == acc.by_risk[sHigh]
        avg_da == IntOfQuotient(SumDA(rows, 1), total)
        referring_domains ==
            Cardinality({rows[i].source_domain : i \in
                            {j \in DOMAIN rows : Truthy(rows[j].source_domain)}})
    IN  [kind |-> "summary",
         cards |-> [total_backlinks |-> total, referring_domains |-> referring_domains,
                    average_da |-> avg_da, toxic_links |-> toxic],
         health_scorecard |-> [healthy |-> healthy, warning |-> warning, toxic |-> toxic],
         anchor_distribution |-> acc.anchor_buckets]

\* The summary with referring_domains counted over the rows that have a
\* source_domain, not over their distinct values.
backlinks_summary_perrow(rows) ==
    LET total == Len(rows)
        acc == SummaryLoop(rows, 1,
                  [by_risk |-> [k \in {sLow, sMedium, sHigh} |-> 0],
                   anchor_buckets |-> [b \in BucketNames |-> 0]])
        healthy == acc.by_risk[sLow]
        warning == acc.by_risk[sMedium]
        toxic == acc.by_risk[sHigh]
        avg_da == IF total # 0 THEN IntOfQuotient(SumDA(rows, 1), total) ELSE 0
        referring_domains ==
            Cardinality({j \in DOMAIN rows : Truthy(rows[j].source_domain)})
    IN  [kind |-> "summary",
         cards |-> [total_backlinks |-> total, referring_domains |-> referring_domains,
                    average_da |-> avg_da, toxic_links |-> toxic],
         health_scorecard |-> [healthy |-> healthy, warning |-> warning, toxic |-> toxic],
         anchor_distribution |-> acc.anchor_buckets]

backlinks_summary(rows) ==
    LET total == Len(rows)
        acc == SummaryLoop(rows, 1,
                  [by_risk |-> [k \in {sLow, sMedium, sHigh} |-> 0],
                   anchor_buckets |-> [b \in BucketNames |-> 0]])
        healthy == acc.by_risk[sLow]
        warning == acc.by_risk[sMedium]
        toxic == acc.by_risk[sHigh]
        avg_da == IF total # 0 THEN IntOfQuotient(SumDA(rows, 1), total) ELSE 0
        referring_domains ==
            Cardinality({rows[i].source_domain : i \in
                            {j \in DOMAIN rows : Truthy(rows[j].source_domain)}})
    IN  [kind |-> "summary",
         cards |-> [total_backlinks |-> total, referring_domains |-> referring_domains,
                    average_da |-> avg_da, toxic_links |-> toxic],
         health_scorecard |-> [healthy |-> healthy, warning |-> warning, toxic |-> toxic],
         anchor_distribution |-> acc.anchor_buckets]

(***************************************************************************)
(* Specification SpecSummary: the summary of an arbitrary Backlink table.  *)
(* The rows are any records the Backlink model admits (every field but     *)
(* backlink_source is Optional), not only those the importer writes.       *)
(***************************************************************************)
aSEO == <<"S","E","O">>
aClickHereNow == <<"c","l","i","c","k"," ","h","e","r","e"," ","n","o","w">>
aAcmeIncGuide == <<"A","c","m","e"," ","I","n","c"," ","g","u","i","d","e">>
aCompleteGuide == <<"c","o","m","p","l","e","t","e"," ","g","u","i","d","e"," ","t","o"," ","t","h","i","n","g","s">>
aUpperHttp == <<"H","T","T","P",":","/","/","A",".","c","o">>
aHttpClickHere == <<"h","t","t","p"," ","c","l","i","c","k"," ","h","e","r","e">>
aBrand == <<"b","r","a","n","d">>
aReadMoreInc == <<"R","e","a","d"," ","M","o","r","e"," ","i","n","c">>
aClickHere == <<"C","l","i","c","k"," ","H","e","r","e">>
aBlank == <<" ">>
aPaddedSEO == <<" ","S","E","O"," ">>
aMyLlcSite == <<"m","y"," ","L","L","C"," "," ","s","i","t","e">>
aCheapLoans == <<"c","h","e","a","p"," ","l","o","a","n","s">>
aFinancialPlanning == <<"f","i","n","a","n","c","i","a","l"," ","p","l","a","n","n","i","n","g">>
dSpammy == <<"s","p","a","m","m","y","s","i","t","e",".","c","o","m">>
dQuality == <<"q","u","a","l","i","t","y","b","l","o","g",".","c","o","m">>
dMediumBlog == <<"m","e","d","i","u","m","b","l","o","g",".","n","e","t">>
uSpammy == <<"h","t","t","p","s",":","/","/","s","p","a","m","m","y","s","i","t","e",".","c","o","m","/","b","a","d">>
uQuality == <<"h","t","t","p","s",":","/","/","q","u","a","l","i","t","y","b","l","o","g",".","c","o","m","/","g","o","o","d">>
uMediumBlog == <<"h","t","t","p","s",":","/","/","m","e","d","i","u","m","b","l","o","g",".","n","e","t","/","o","k">>
sCritical == <<"c","r","i","t","i","c","a","l">>
sUpperHigh == <<"H","i","g","h">>

MaxSummaryRows == 2

AnchorTexts ==
    {aSEO, aClickHereNow, aAcmeIncGuide, aCompleteGuide, aUpperHttp, aHttpClickHere,
     aBrand, aReadMoreInc, aClickHere, aBlank, aPaddedSEO, aMyLlcSite, <<>>}
AnchorValues == {None} \cup {PyStr(t) : t \in AnchorTexts}
RiskValues ==
    {None} \cup {PyStr(t) : t \in {<<>>, sLow, sMedium, sHigh, sCritical, sUpperHigh}}
DAValues == {None, PyInt(0), PyInt(7), PyInt(50), PyInt(100), PyInt(-5)}
DomainValues == {None, PyStr(<<>>), PyStr(dSpammy), PyStr(dQuality)}

BacklinkRow(anchor, risk, da, dom) ==
    [backlink_source |-> PyStr(uQuality), anchor_text |-> anchor, target_url |-> None,
     domain_authority |-> da, nofollow |-> None, date_found |-> None,
     link_type |-> None, source_domain |-> dom, risk_level |-> risk]

SummaryRecords ==
    {BacklinkRow(a, PyStr(sLow), PyInt(50), PyStr(dQuality)) : a \in AnchorValues}
    \cup {BacklinkRow(PyStr(aSEO), r, PyInt(50), PyStr(dQuality)) : r \in RiskValues}
    \cup {BacklinkRow(PyStr(aSEO), PyStr(sLow), d, PyStr(dQuality)) : d \in DAValues}
    \cup {BacklinkRow(PyStr(aSEO), PyStr(sLow), PyInt(50), s) : s \in DomainValues}

SeqsUpTo(S, n) == UNION {[1..k -> S] : k \in 0..n}

InitSummary ==
    /\ store \in SeqsUpTo(SummaryRecords, MaxSummaryRows)
    /\ imp = NoImport
    /\ resp = NoResp
    /\ args = [fn |-> "summary"]
    /\ gaplinks = <<>>
    /\ salt = 0
    /\ gsc = NoGsc
    /\ req = NoRequests

\* GET /backlinkapi/backlinks/summary: reads the whole table, answers the summary.
GetSummary ==
    /\ args' = [fn |-> "summary"]
    /\ resp' = backlinks_summary(store)
    /\ UNCHANGED <<store, imp, gaplinks, salt, gsc, req>>

NextSummary == GetSummary

SpecSummary == InitSummary /\ [][NextSummary]_vars

RiskSum ==
    resp.health_scorecard.healthy + resp.health_scorecard.warning
        + resp.health_scorecard.toxic

\* C8 (as stated): for any set of Backlink records, whatever their risk_level
\* holds (absent included), healthy + warning + toxic = total_backlinks.
C8_RiskSumIsTotal ==
    resp.kind = "summary" => RiskSum = resp.cards.total_backlinks

\* C8 (amended): healthy + warning + toxic equals the number of records whose
\* risk_level is exactly low, medium or high, which is total_backlinks when
\* every record has such a level; a record whose risk_level is absent, empty
\* or another string is counted in no tier.
C8_RiskSumCountsTiered ==
    resp.kind = "summary" =>
        /\ resp.cards.total_backlinks = Len(store)
        /\ RiskSum = Cardinality({i \in DOMAIN store :
                        store[i].risk_level \in {PyStr(sLow), PyStr(sMedium), PyStr(sHigh)}})

\* C8 witness: a summary of two records, one tiered and one with absent risk_level.
C8_Witness ==
    /\ resp.kind = "summary"
    /\ Len(store) = 2
    /\ store[1].risk_level = PyStr(sMedium)
    /\ store[2].risk_level = None
    /\ RiskSum = 1

AnchorSum ==
    resp.anchor_distribution["Branded"] + resp.anchor_distribution["Exact Match"]
        + resp.anchor_distribution["Partial Match"] + resp.anchor_distribution["Generic"]
        + resp.anchor_distribution["Naked URL"]

\* C9: the summary puts every record in exactly one of the five anchor buckets:
\* the five counts are the only ones reported, none is negative and they sum to
\* total_backlinks (the number of records); records with absent anchor text are
\* counted too (under Naked URL).
C9_AnchorSumIsTotal ==
    resp.kind = "summary" =>
        /\ DOMAIN resp.anchor_distribution = BucketNames
        /\ \A b \in BucketNames : resp.anchor_distribution[b] >= 0
        /\ resp.cards.total_backlinks = Len(store)
        /\ AnchorSum = resp.cards.total_backlinks
        /\ resp.anchor_distribution["Naked URL"]
               >= Cardinality({i \in DOMAIN store : store[i].anchor_text = None})

\* C9 witness: a summary of two records, one of them with absent anchor text.
C9_Witness ==
    /\ resp.kind = "summary"
    /\ Len(store) = 2
    /\ store[1].anchor_text = None
    /\ store[2].anchor_text = PyStr(aReadMoreInc)
    /\ AnchorSum = 2

\* The claim's precedence table, on the text with case folded (absent = empty).
TextOf(r) == IF r.anchor_text = None THEN <<>> ELSE Lower(r.anchor_text.str)
OneToken(t) ==
    \E i, j \in DOMAIN t :
        \A k \in DOMAIN t : (t[k] \notin WhitespaceChars) <=> (i <= k /\ k <= j)
TableBucket(t) ==
    CASE t = <<>> \/ StartsWith(t, sHttp) -> "Naked URL"
      [] OTHER ->
         CASE OneToken(t) -> "Exact Match"
           [] OTHER ->
              CASE \E k \in GenericPhrases : Contains(t, k) -> "Generic"
                [] OTHER ->
                   CASE \E k \in BrandWords : Contains(t, k) -> "Branded"
                     [] OTHER -> "Partial Match"
BucketOfExample(text, bucket) ==
    store = <<BacklinkRow(PyStr(text), PyStr(sLow), PyInt(50), PyStr(dQuality))>>
        => resp.anchor_distribution[bucket] = 1

\* C10: anchor bucketing is first-match-wins in the order Naked URL (empty or
\* absent text, or text starting with "http"), Exact Match (exactly one
\* whitespace-delimited token), Generic (contains "click here", "read more" or
\* "visit site"), Branded (contains "brand", "inc" or "llc"), else Partial
\* Match, all tests on the case-folded text: each bucket's count is the number
\* of records the table sends to it; and "" -> Naked URL, "SEO" -> Exact Match,
\* "click here now" -> Generic, "Acme Inc guide" -> Branded,
\* "complete guide to things" -> Partial Match.
C10_AnchorPrecedence ==
    resp.kind = "summary" =>
        /\ \A b \in BucketNames :
              resp.anchor_distribution[b]
                  = Cardinality({i \in DOMAIN store : TableBucket(TextOf(store[i])) = b})
        /\ BucketOfExample(<<>>, "Naked URL")
        /\ BucketOfExample(aSEO, "Exact Match")
        /\ BucketOfExample(aClickHereNow, "Generic")
        /\ BucketOfExample(aAcmeIncGuide, "Branded")
        /\ BucketOfExample(aCompleteGuide, "Partial Match")

\* C10 witness: a summary over an anchor that matches a generic phrase and a
\* brand word (Generic wins) and a one-token brand word (Exact Match wins).
C10_Witness ==
    /\ resp.kind = "summary"
    /\ Len(store) = 2
    /\ store[1].anchor_text = PyStr(aReadMoreInc)
    /\ store[2].anchor_text = PyStr(aBrand)
    /\ resp.anchor_distribution["Generic"] = 1
    /\ resp.anchor_distribution["Exact Match"] = 1

RECURSIVE AuthoritySum(_)
\* The sum of domain_authority over the records, an absent value counted as 0.
AuthoritySum(rows) ==
    IF rows = <<>> THEN 0
    ELSE (IF Head(rows).domain_authority = None THEN 0
          ELSE Head(rows).domain_authority.int) + AuthoritySum(Tail(rows))

\* C11: average_da is the floor of the sum of domain_authority
\* (absent counted as 0) divided by the record count, for every record set
\* with integer authorities, and 0 for the empty set.
C11_AverageIsFloor ==
    resp.kind = "summary" =>
        resp.cards.average_da =
            IF Len(store) = 0 THEN 0 ELSE AuthoritySum(store) \div Len(store)

\* C20: the summary of an empty record set succeeds and reports
\* total_backlinks = 0, referring_domains = 0, average_da = 0, every risk-tier
\* count 0 and every anchor bucket 0.
C20_EmptySummaryZero ==
    (store = <<>> /\ resp.kind # "none") =>
        /\ resp.kind = "summary"
        /\ resp.cards = [total_backlinks |-> 0, referring_domains |-> 0,
                         average_da |-> 0, toxic_links |-> 0]
        /\ resp.health_scorecard = [healthy |-> 0, warning |-> 0, toxic |-> 0]
        /\ resp.anchor_distribution = [b \in BucketNames |-> 0]

\* C20 witness: the summary of the empty table has been answered.
C20_Witness ==
    /\ store = <<>>
    /\ resp.kind = "summary"
    /\ resp.cards.total_backlinks = 0

\* C21: referring_domains is the number of distinct non-empty source_domain
\* values among the records: an absent or empty source_domain adds nothing
\* and a domain that several records carry counts once.
C21_ReferringDomainsDistinct ==
    resp.kind = "summary" =>
        resp.cards.referring_domains =
            Cardinality({store[i].source_domain : i \in DOMAIN store}
                            \ {None, PyStr(<<>>)})

\* C21 witness: a summary of two records that carry the same domain reports
\* one referring domain.
C21_Witness ==
    /\ resp.kind = "summary"
    /\ Len(store) = 2
    /\ store[1].source_domain = PyStr(dSpammy)
    /\ store[2].source_domain = PyStr(dSpammy)
    /\ resp.cards.referring_domains = 1

(***************************************************************************)
(* parse_bool, int() and str() on the values of a CSV cell                 *)
(***************************************************************************)
DigitChars == <<"0","1","2","3","4","5","6","7","8","9">>
IsDigit(c) == \E d \in DOMAIN DigitChars : DigitChars[d] = c
DigitValue(c) == (CHOOSE d \in DOMAIN DigitChars : DigitChars[d] = c) - 1

RECURSIVE DigitsValue(_)
\* The number a non-empty sequence of decimal digits denotes.
DigitsValue(s) ==
    IF Len(s) = 0 THEN 0
    ELSE 10 * DigitsValue(SubSeq(s, 1, Len(s) - 1)) + DigitValue(s[Len(s)])

RECURSIVE NatToStr(_)
\* str(n) for n >= 0
NatToStr(n) ==
    IF n < 10 THEN <<DigitChars[n + 1]>>
    ELSE Append(NatToStr(n \div 10), DigitChars[(n % 10) + 1])

IntToStr(n) == IF n < 0 THEN <<"-">> \o NatToStr(-n) ELSE NatToStr(n)

sNan == <<"n","a","n">>
sTrue == <<"T","r","u","e">>
sFalse == <<"F","a","l","s","e">>

\* str(x): "nan" for nan, the decimal numeral of an int, "w.t" for a float,
\* "True"/"False" for a bool, the text itself for a str.
ToStr(x) ==
    IF x = NaN THEN sNan
    ELSE IF x = None THEN <<"N","o","n","e">>
    ELSE IF IsInt(x) THEN IntToStr(x.int)
    ELSE IF IsFlt(x) THEN
        (IF x.flt < 0 THEN <<"-">> ELSE <<>>)
            \o NatToStr((IF x.flt < 0 THEN -x.flt ELSE x.flt) \div 10)
            \o <<".">> \o NatToStr((IF x.flt < 0 THEN -x.flt ELSE x.flt) % 10)
    ELSE IF IsBool(x) THEN (IF x.bool THEN sTrue ELSE sFalse)
    ELSE x.str

TrueWords == {<<"1">>, <<"t","r","u","e">>, <<"y","e","s">>, <<"y">>}

\* The coercion without the strip().
parse_bool_nostrip(x) ==
    IF x = None THEN None
    ELSE IF IsBool(x) THEN x
    ELSE PyBool(Lower(ToStr(x)) \in TrueWords)

parse_bool(x) ==
    IF x = None THEN None
    ELSE IF IsBool(x) THEN x
    ELSE PyBool(Lower(Strip(ToStr(x))) \in TrueWords)

Raised == [raised |-> TRUE]
Returned(v) == [raised |-> FALSE, value |-> v]

\* int(x): an int as it is, a float truncated toward zero, a bool as 0/1, a
\* str parsed as an optionally signed decimal numeral between whitespace;
\* ValueError for nan and for any other text.
IntOf(x) ==
    IF x = NaN THEN Raised
    ELSE IF IsInt(x) THEN Returned(PyInt(x.int))
    ELSE IF IsFlt(x) THEN Returned(PyInt(IntOfQuotient(x.flt, 10)))
    ELSE IF IsBool(x) THEN Returned(PyInt(IF x.bool THEN 1 ELSE 0))
    ELSE LET t == Strip(x.str)
             signed == Len(t) > 0 /\ t[1] \in {"-", "+"}
             d == IF signed THEN Tail(t) ELSE t
         IN  IF Len(d) > 0 /\ \A i \in DOMAIN d : IsDigit(d[i])
             THEN Returned(PyInt(IF signed /\ t[1] = "-" THEN -DigitsValue(d)
                                 ELSE DigitsValue(d)))
             ELSE Raised

(***************************************************************************)
(* import_backlinks: the schema mapper                                     *)
(***************************************************************************)
\* Column labels are kept as atomic strings: the code only tests them for
\* equality (k in df.columns) and uses them as keys.
colmap_candidates ==
    [backlink_source |-> <<"backlink_source", "url_from", "source_url", "referring_page", "Backlink">>,
     anchor_text |-> <<"anchor_text", "anchor", "text">>,
     target_url |-> <<"target_url", "url_to", "target", "Destination URL">>,
     domain_authority |-> <<"domain_authority", "da", "Domain Authority", "Authority Score", "Domain Rating">>,
     nofollow |-> <<"nofollow", "is_nofollow", "nofollow?">>,
     date_found |-> <<"date_found", "first_seen", "Found On", "First seen">>,
     link_type |-> <<"link_type", "type", "Link Type">>,
     source_domain |-> <<"source_domain", "domain_from", "Referring Domain", "root_domain">>]

Fields == DOMAIN colmap_candidates

Col(k) == [col |-> k]

RECURSIVE pick_last(_, _)
\* The mapper returning the last alias present instead of the first.
pick_last(series, keys) ==
    IF keys = <<>> THEN None
    ELSE IF keys[Len(keys)] \in series THEN Col(keys[Len(keys)])
    ELSE pick_last(series, SubSeq(keys, 1, Len(keys) - 1))

RECURSIVE pick(_, _)
\* for k in keys: if k in series: return k / return None
pick(series, keys) ==
    IF keys = <<>> THEN None
    ELSE IF Head(keys) \in series THEN Col(Head(keys))
    ELSE pick(series, Tail(keys))

(***************************************************************************)
(* Specification SpecPick: the mapper on every field and column set.       *)
(***************************************************************************)
PickColumns ==
    {"da", "DA", "Domain Authority", "domain_authority", "Domain Rating",
     "anchor", "text", "Anchor", "url_from", "Backlink", "backlink", "url"}

InitPick ==
    /\ store = <<>>
    /\ imp = NoImport
    /\ resp = NoResp
    /\ args \in [fn : {"pick"}, field : Fields, columns : SUBSET PickColumns]
    /\ gaplinks = <<>>
    /\ salt = 0
    /\ gsc = NoGsc
    /\ req = NoRequests

ApplyPick ==
    /\ args.fn = "pick"
    /\ resp = NoResp
    /\ resp' = [kind |-> "pick",
                value |-> pick(args.columns, colmap_candidates[args.field])]
    /\ UNCHANGED <<store, imp, args, gaplinks, salt, gsc, req>>

NextPick == ApplyPick

SpecPick == InitPick /\ [][NextPick]_vars

\* C7: for every canonical field and every set of column names, pick returns
\* the first alias of the field's priority list that is among the columns
\* (exact, case-sensitive match), None when no alias of the list is present,
\* and never a column outside the field's alias list.
C7_PickFirstAlias ==
    resp.kind = "pick" =>
        LET keys == colmap_candidates[args.field] IN
        /\ (resp.value = None) <=> (\A i \in DOMAIN keys : keys[i] \notin args.columns)
        /\ resp.value # None =>
              \E i \in DOMAIN keys :
                  /\ resp.value = Col(keys[i])
                  /\ keys[i] \in args.columns
                  /\ \A j \in 1..(i - 1) : keys[j] \notin args.columns

\* C7 witness: the columns hold two aliases of domain_authority ("da" and
\* "Domain Rating") and a case variant ("DA"); the mapper answered "da".
C7_Witness ==
    /\ resp.kind = "pick"
    /\ args.field = "domain_authority"
    /\ args.columns = {"DA", "Domain Rating", "da", "url"}
    /\ resp.value = Col("da")

(***************************************************************************)
(* import_backlinks: the request, row by row                               *)
(***************************************************************************)
sDotCsv == <<".","c","s","v">>
fLowerCsv == <<"l","i","n","k","s",".","c","s","v">>
fUpperCsv == <<"L","I","N","K","S",".","C","S","V">>
fTxt == <<"l","i","n","k","s",".","t","x","t">>
uPageA == <<"h","t","t","p","s",":","/","/","a",".","c","o","m","/","p">>
uPageB == <<"h","t","t","p","s",":","/","/","b",".","o","r","g","/","q">>
sYes == <<"Y","e","s">>
sNo == <<"n","o">>
sAbc == <<"a","b","c">>
s25 == <<"2","5">>
sDate2024 == <<"2","0","2","4","-","0","1","-","1","5">>
sNotADate == <<"s","o","o","n">>

Now == [now |-> TRUE]
NaT == [nat |-> TRUE]
Timestamp(s) == [ts |-> s]

EndsWith(s, p) == Len(s) >= Len(p) /\ SubSeq(s, Len(s) - Len(p) + 1, Len(s)) = p

\* The texts pd.to_datetime parses in this model; any other text raises.
DateTexts == {sDate2024}

\* pd.to_datetime(x): NaT for a blank cell, a timestamp for a date text (or a
\* number, read as an epoch offset), an error for any other text.
ToDatetime(x) ==
    IF x = NaN THEN Returned(NaT)
    ELSE IF IsStr(x) THEN (IF x.str \in DateTexts THEN Returned(Timestamp(x.str)) ELSE Raised)
    ELSE Returned(Timestamp(ToStr(x)))

\* pick(df.columns, colmap_candidates[field]) and row[pick(...)]
PickAndCell(columns, row, field) ==
    LET k == pick(columns, colmap_candidates[field]) IN
    IF k = None THEN None ELSE row[k.col]

\* row.get("url", "")
RowGetUrl(columns, row) == IF "url" \in columns THEN row["url"] ELSE PyStr(<<>>)

\* The body of the try block for one row: the Backlink it builds, or the
\* error it raises (int() of the domain_authority cell, pd.to_datetime of the
\* date_found cell). Backlink is a table model: its constructor validates
\* nothing, so no other value raises.
ProcessRow(columns, row) ==
    LET daCol == pick(columns, colmap_candidates["domain_authority"])
        da == IF daCol # None THEN IntOf(row[daCol.col]) ELSE Returned(None)
        nfCol == pick(columns, colmap_candidates["nofollow"])
        nofollow_val == IF nfCol # None THEN parse_bool(row[nfCol.col]) ELSE None
        link_type_val == PickAndCell(columns, row, "link_type")
        src == PickAndCell(columns, row, "backlink_source")
        dtCol == pick(columns, colmap_candidates["date_found"])
        date == IF dtCol # None THEN ToDatetime(row[dtCol.col]) ELSE Returned(Now)
    IN  IF da.raised \/ date.raised THEN Raised
        ELSE Returned(
            [backlink_source |-> IF Truthy(src) THEN src
                                 ELSE PyStr(ToStr(RowGetUrl(columns, row))),
             anchor_text |-> PickAndCell(columns, row, "anchor_text"),
             target_url |-> PickAndCell(columns, row, "target_url"),
             domain_authority |-> da.value,
             nofollow |-> nofollow_val,
             date_found |-> date.value,
             link_type |-> link_type_val,
             source_domain |-> PickAndCell(columns, row, "source_domain"),
             risk_level |-> calculate_risk_level(da.value, nofollow_val, link_type_val)])

\* What SQLite stores for a bound value: a float nan is bound as NULL.
DBValue(v) == IF v = NaN THEN None ELSE v
DBRow(bk) == [f \in DOMAIN bk |-> DBValue(bk[f])]

\* The INSERTs of the flush succeed unless a NOT NULL column gets NULL:
\* backlink_source is the only non-Optional column of Backlink.
Insertable(session) ==
    \A i \in DOMAIN session : DBValue(session[i].backlink_source) # None

HTTPError(code) == [kind |-> "error", status |-> code]

\* df.empty: no rows or no columns
DfEmpty(df) == Len(df.rows) = 0 \/ df.columns = {}

(***************************************************************************)
(* The uploads of the model: a file name and what pd.read_csv makes of the *)
(* content (an error, or a frame of columns and rows).                     *)
(***************************************************************************)
ColsFull == {"url_from", "anchor", "da", "nofollow", "type"}
ColsNoDA == {"url_from", "anchor"}
ColsFallback == {"url", "DA", "anchor"}
ColsDate == {"Backlink", "Domain Rating", "First seen"}

RowFull(src, anchor, da, nf, type) ==
    [url_from |-> src, anchor |-> anchor, da |-> da, nofollow |-> nf, type |-> type]
RowNoDA(src, anchor) == [url_from |-> src, anchor |-> anchor]
RowFallback(url, da, anchor) == [url |-> url, DA |-> da, anchor |-> anchor]
RowDate(src, dr, seen) ==
    ("Backlink" :> src) @@ ("Domain Rating" :> dr) @@ ("First seen" :> seen)

Frame(columns, rows) == [parse |-> "ok", df |-> [columns |-> columns, rows |-> rows]]
Upload(filename, content) == [filename |-> filename, content |-> content]

FrameGoodFull ==
    Frame(ColsFull, <<RowFull(PyStr(uPageA), PyStr(aSEO), PyInt(25), PyBool(FALSE), PyStr(sFooter))>>)
FrameGoodBlankFull ==
    Frame(ColsFull,
          <<RowFull(PyStr(uPageA), PyStr(aClickHereNow), PyFlt(455), PyStr(sYes), PyStr(sSidebar)),
            RowFull(NaN, NaN, NaN, NaN, NaN)>>)
FrameTextDA ==
    Frame(ColsFull,
          <<RowFull(PyStr(uPageB), PyStr(aBrand), PyStr(sAbc), PyStr(sNo), PyStr(sEditorial)),
            RowFull(PyStr(uPageA), PyStr(aAcmeIncGuide), PyStr(s25), PyStr(sNo), NaN)>>)
FrameGoodNoDA == Frame(ColsNoDA, <<RowNoDA(PyStr(uPageB), PyStr(aCompleteGuide))>>)
FrameGoodBlankNoDA ==
    Frame(ColsNoDA, <<RowNoDA(PyStr(uPageA), PyStr(aSEO)), RowNoDA(NaN, NaN)>>)
FrameFallback ==
    Frame(ColsFallback,
          <<RowFallback(PyStr(uPageA), PyStr(sAbc), PyStr(aMyLlcSite)),
            RowFallback(NaN, NaN, NaN)>>)
FrameDates ==
    Frame(ColsDate,
          <<RowDate(PyStr(uPageB), PyInt(150), PyStr(sDate2024)),
            RowDate(PyStr(uPageA), PyInt(40), PyStr(sNotADate))>>)
FrameBlankDate == Frame(ColsDate, <<RowDate(PyStr(uPageA), PyInt(-5), NaN)>>)
FrameNoRows == Frame(ColsFull, <<>>)
ParseError == [parse |-> "error"]

Uploads ==
    {Upload(fLowerCsv, c) : c \in {FrameGoodFull, FrameGoodBlankFull, FrameTextDA,
                                   FrameGoodNoDA, FrameGoodBlankNoDA, FrameFallback,
                                   FrameDates, FrameBlankDate, FrameNoRows, ParseError}}
    \cup {Upload(fUpperCsv, FrameGoodNoDA), Upload(fTxt, FrameGoodFull)}

(***************************************************************************)
(* Specification Spec: the service after startup.                          *)
(***************************************************************************)
MaxStore == 5

\* The keys a process may draw for its str hash.
MaxSalt == 3
Salts == 0..MaxSalt

\* seed_demo_data: the three demo rows, with the risk_level each is given.
demo_rows ==
    <<[backlink_source |-> PyStr(uSpammy), source_domain |-> PyStr(dSpammy),
       anchor_text |-> PyStr(aCheapLoans), target_url |-> None,
       domain_authority |-> PyInt(8), nofollow |-> PyBool(TRUE), date_found |-> Now,
       link_type |-> PyStr(sFooter), risk_level |-> PyStr(sHigh)],
      [backlink_source |-> PyStr(uQuality), source_domain |-> PyStr(dQuality),
       anchor_text |-> PyStr(aFinancialPlanning), target_url |-> None,
       domain_authority |-> PyInt(67), nofollow |-> PyBool(FALSE), date_found |-> Now,
       link_type |-> PyStr(sEditorial), risk_level |-> PyStr(sLow)],
      [backlink_source |-> PyStr(uMediumBlog), source_domain |-> PyStr(dMediumBlog),
       anchor_text |-> PyStr(sClickHere), target_url |-> None,
       domain_authority |-> PyInt(34), nofollow |-> PyBool(FALSE), date_found |-> Now,
       link_type |-> PyStr(sContextual), risk_level |-> PyStr(sMedium)]>>

\* The state after lifespan startup on a fresh database: init_db, seed_demo_data.
Init ==
    /\ store = demo_rows
    /\ imp = NoImport
    /\ resp = NoResp
    /\ args = NoArgs
    /\ gaplinks = <<>>
    /\ salt \in Salts
    /\ gsc = NoGsc
    /\ req = NoRequests

\* The start of the import without the df.empty check: an empty frame goes on
\* to the (empty) row loop and the commit.
ImportStart_noemptycheck(u) ==
    /\ imp.pc = "idle"
    /\ u.content.parse = "ok" => Len(store) + Len(u.content.df.rows) <= MaxStore
    /\ args' = [fn |-> "import", file |-> u]
    /\ IF ~EndsWith(Lower(u.filename), sDotCsv)
       THEN resp' = HTTPError(400) /\ UNCHANGED imp
       ELSE IF u.content.parse = "error"
       THEN resp' = HTTPError(400) /\ UNCHANGED imp
       ELSE /\ imp' = [pc |-> "rows", df |-> u.content.df, idx |-> 1,
                       inserted |-> 0, errors |-> 0, session |-> <<>>]
            /\ UNCHANGED resp
    /\ UNCHANGED <<store, gaplinks, salt, gsc, req>>

\* POST /backlinkapi/backlinks/import, up to the row loop: the file-name
\* check, pd.read_csv, the df.empty check (its HTTPException is caught by the
\* enclosing except and raised again as a 400), the opening of the session.
ImportStart(u) ==
    /\ imp.pc = "idle"
    /\ u.content.parse = "ok" => Len(store) + Len(u.content.df.rows) <= MaxStore
    /\ args' = [fn |-> "import", file |-> u]
    /\ IF ~EndsWith(Lower(u.filename), sDotCsv)
       THEN resp' = HTTPError(400) /\ UNCHANGED imp
       ELSE IF u.content.parse = "error" \/ DfEmpty(u.content.df)
       THEN resp' = HTTPError(400) /\ UNCHANGED imp
       ELSE /\ imp' = [pc |-> "rows", df |-> u.content.df, idx |-> 1,
                       inserted |-> 0, errors |-> 0, session |-> <<>>]
            /\ UNCHANGED resp
    /\ UNCHANGED <<store, gaplinks, salt, gsc, req>>

\* The loop step with inserted incremented before the row is built, so that a
\* row that raises is counted as inserted and as an error.
ImportRow_countfirst ==
    /\ imp.pc = "rows"
    /\ imp.idx <= Len(imp.df.rows)
    /\ LET r == ProcessRow(imp.df.columns, imp.df.rows[imp.idx]) IN
       imp' = IF r.raised
              THEN [imp EXCEPT !.inserted = @ + 1, !.errors = @ + 1, !.idx = @ + 1]
              ELSE [imp EXCEPT !.session = Append(@, r.value), !.inserted = @ + 1,
                               !.idx = @ + 1]
    /\ UNCHANGED <<store, resp, args, gaplinks, salt, gsc, req>>

\* The loop step that commits each row as it is added.
ImportRow_commitsrow ==
    /\ imp.pc = "rows"
    /\ imp.idx <= Len(imp.df.rows)
    /\ LET r == ProcessRow(imp.df.columns, imp.df.rows[imp.idx]) IN
       /\ imp' = IF r.raised
                 THEN [imp EXCEPT !.errors = @ + 1, !.idx = @ + 1]
                 ELSE [imp EXCEPT !.inserted = @ + 1, !.idx = @ + 1]
       /\ store' = IF r.raised THEN store ELSE Append(store, DBRow(r.value))
    /\ UNCHANGED <<resp, args, gaplinks, salt, gsc, req>>

\* One pass of `for idx, row in df.iterrows()`: the row is built and added to
\* the session (inserted += 1), or its error is caught (errors += 1).
ImportRow ==
    /\ imp.pc = "rows"
    /\ imp.idx <= Len(imp.df.rows)
    /\ LET r == ProcessRow(imp.df.columns, imp.df.rows[imp.idx]) IN
       imp' = IF r.raised
              THEN [imp EXCEPT !.errors = @ + 1, !.idx = @ + 1]
              ELSE [imp EXCEPT !.session = Append(@, r.value), !.inserted = @ + 1,
                               !.idx = @ + 1]
    /\ UNCHANGED <<store, resp, args, gaplinks, salt, gsc, req>>

\* The commit that replaces the table's rows by the session's.
ImportCommit_overwrite(dbok) ==
    /\ imp.pc = "rows"
    /\ imp.idx > Len(imp.df.rows)
    /\ IF dbok /\ Insertable(imp.session)
       THEN /\ store' = [i \in DOMAIN imp.session |-> DBRow(imp.session[i])]
            /\ resp' = [kind |-> "report", status |-> "ok", inserted |-> imp.inserted,
                        errors |-> imp.errors, total_rows |-> Len(imp.df.rows)]
       ELSE /\ store' = store
            /\ resp' = HTTPError(500)
    /\ imp' = NoImport
    /\ UNCHANGED <<args, gaplinks, salt, gsc, req>>

\* The commit that leaves out the rows the table already holds.
ImportCommit_dedup(dbok) ==
    /\ imp.pc = "rows"
    /\ imp.idx > Len(imp.df.rows)
    /\ IF dbok /\ Insertable(imp.session)
       THEN /\ store' = store \o SelectSeq([i \in DOMAIN imp.session |-> DBRow(imp.session[i])],
                                          LAMBDA r : \A j \in DOMAIN store : store[j] # r)
            /\ resp' = [kind |-> "report", status |-> "ok", inserted |-> imp.inserted,
                        errors |-> imp.errors, total_rows |-> Len(imp.df.rows)]
       ELSE /\ store' = store
            /\ resp' = HTTPError(500)
    /\ imp' = NoImport
    /\ UNCHANGED <<args, gaplinks, salt, gsc, req>>

\* s.commit() after the loop and the report. The commit inserts every row of
\* the session in one transaction; when it raises (a NOT NULL violation, or the
\* database failing: dbok false) nothing is stored and the request ends in 500.
ImportCommit(dbok) ==
    /\ imp.pc = "rows"
    /\ imp.idx > Len(imp.df.rows)
    /\ IF dbok /\ Insertable(imp.session)
       THEN /\ store' = store \o [i \in DOMAIN imp.session |-> DBRow(imp.session[i])]
            /\ resp' = [kind |-> "report", status |-> "ok", inserted |-> imp.inserted,
                        errors |-> imp.errors, total_rows |-> Len(imp.df.rows)]
       ELSE /\ store' = store
            /\ resp' = HTTPError(500)
    /\ imp' = NoImport
    /\ UNCHANGED <<args, gaplinks, salt, gsc, req>>

Next ==
    \/ \E u \in Uploads : ImportStart(u)
    \/ ImportRow
    \/ \E dbok \in BOOLEAN : ImportCommit(dbok)
    \/ GetSummary

Spec == Init /\ [][Next]_vars

RiskIsDerived(r) ==
    r.risk_level = calculate_risk_level(r.domain_authority, r.nofollow, r.link_type)

\* C3: after startup seeding and any sequence of imports, every stored
\* Backlink has risk_level = calculate_risk_level(its domain_authority, its
\* nofollow, its link_type).
C3_RiskAlwaysDerived ==
    \A i \in DOMAIN store : RiskIsDerived(store[i])

RECURSIVE PersistedOf(_, _)
\* The table rows of the rows of a frame that do not raise, in frame order.
PersistedOf(columns, rows) ==
    IF rows = <<>> THEN <<>>
    ELSE LET r == ProcessRow(columns, Head(rows)) IN
         (IF r.raised THEN <<>> ELSE <<DBRow(r.value)>>)
             \o PersistedOf(columns, Tail(rows))

\* C4: when an import returns a report, every row of the frame either raised
\* during extraction/coercion (counted in errors, not persisted) or was
\* persisted as exactly one Backlink (counted in inserted): inserted is the
\* number of rows that do not raise, errors the number that do,
\* inserted + errors = total_rows = the number of rows, and the table grows by
\* exactly the rows that did not raise, appended in order.
C4_RowsInsertedOrErrors ==
    [][(imp.pc = "rows" /\ imp'.pc = "idle" /\ resp'.kind = "report") =>
          LET rows == imp.df.rows
              kept == PersistedOf(imp.df.columns, rows)
          IN  /\ resp'.total_rows = Len(rows)
              /\ resp'.inserted = Len(kept)
              /\ resp'.errors = Len(rows) - Len(kept)
              /\ resp'.inserted + resp'.errors = resp'.total_rows
              /\ Len(store') = Len(store) + resp'.inserted
              /\ store' = store \o kept]_vars

\* C4 witness: an import of two rows has answered with one row inserted
\* (now in the table after the three seeded rows) and one row in error.
C4_Witness ==
    /\ resp.kind = "report"
    /\ resp.inserted = 1
    /\ resp.errors = 1
    /\ resp.total_rows = 2
    /\ Len(store) = 4

EmptyImport(a) ==
    /\ a.fn = "import"
    /\ a.file.content.parse = "ok"
    /\ Len(a.file.content.df.rows) = 0

\* C5: an import whose parsed batch has no rows is answered with 400 by the
\* step that receives it: no row loop is entered, the table is unchanged and
\* no report is returned.
C5_EmptyBatchRejected ==
    [][EmptyImport(args') =>
          (store' = store /\ resp' = HTTPError(400) /\ imp'.pc = "idle")]_vars

\* C5 witness: the import of a frame without rows has been rejected with 400,
\* the table still holding the seeded rows only.
C5_Witness ==
    /\ EmptyImport(args)
    /\ EndsWith(Lower(args.file.filename), sDotCsv)
    /\ resp = HTTPError(400)
    /\ store = demo_rows

Mapped(columns, f) == pick(columns, colmap_candidates[f]) # None
\* A row with a value in every mappable column, a source among them, that
\* passes every coercion.
WellFormedRow(columns, row) ==
    /\ Mapped(columns, "backlink_source")
    /\ \A f \in Fields :
          Mapped(columns, f) => row[pick(columns, colmap_candidates[f]).col] # NaN
    /\ ~ProcessRow(columns, row).raised
\* A row with no value in any mappable column.
BlankRow(columns, row) ==
    \A f \in Fields :
        Mapped(columns, f) => row[pick(columns, colmap_candidates[f]).col] = NaN
MixedFrame(df) ==
    /\ Len(df.rows) = 2
    /\ \E i, j \in DOMAIN df.rows :
          WellFormedRow(df.columns, df.rows[i]) /\ BlankRow(df.columns, df.rows[j])

\* C6: the import of one well-formed row and one row without a value in any
\* mappable column ends its row loop with inserted = 1 and errors = 1 (the
\* blank row skipped, only the well-formed row in the session), and its report
\* carries inserted = 1, errors = 1, total_rows = 2.
C6_BlankRowIsError ==
    /\ (imp.pc = "rows" /\ imp.idx > Len(imp.df.rows) /\ MixedFrame(imp.df)) =>
          (imp.inserted = 1 /\ imp.errors = 1 /\ Len(imp.session) = 1)
    /\ (args.fn = "import" /\ imp.pc = "idle" /\ resp.kind = "report"
           /\ args.file.content.parse = "ok" /\ MixedFrame(args.file.content.df)) =>
          (resp.inserted = 1 /\ resp.errors = 1 /\ resp.total_rows = 2)

(***************************************************************************)
(* CompetitorAnalyzer: simulated authority, presence flags and gap list    *)
(***************************************************************************)
\* ord(c) for the characters of a domain name.
Ord(c) ==
    IF c = "." THEN 46
    ELSE IF c = "-" THEN 45
    ELSE IF IsDigit(c) THEN 48 + DigitValue(c)
    ELSE 96 + (CHOOSE i \in DOMAIN LowerChars : LowerChars[i] = c)

\* The number of values of the modelled str hash (CPython's has 2^64).
HashModulus == 65536

RECURSIVE HashMix(_, _, _)
\* The keyed running value over the first n characters of s.
HashMix(key, s, n) ==
    IF n = 0 THEN key
    ELSE (HashMix(key, s, n - 1) * 31 + Ord(s[n]) + key) % HashModulus

\* hash(s) of a str under the key k: a signed value that depends on the key;
\* the hash of the empty string is 0 under every key.
HashWith(k, s) ==
    IF s = <<>> THEN 0 ELSE HashMix(k, s, Len(s)) - (HashModulus \div 2)

\* hash(s) in the running process.
hash(s) == HashWith(salt, s)

sDotEdu == <<".","e","d","u">>
sDotGov == <<".","g","o","v">>
MajorOutlets == {<<"t","e","c","h","c","r","u","n","c","h">>, <<"f","o","r","b","e","s">>, <<"c","n","n">>, <<"b","b","c">>}

\* len(domain.split('.')[0]): the length of the text before the first dot.
FirstLabelLen(domain) ==
    LET dots == {i \in DOMAIN domain : domain[i] = "."} IN
    IF dots = {} THEN Len(domain)
    ELSE (CHOOSE i \in dots : \A j \in dots : i <= j) - 1

analyze_domain_authority(domain) ==
    IF Contains(domain, sDotEdu) \/ Contains(domain, sDotGov)
    THEN 85 + (hash(domain) % 15)
    ELSE IF \E brand \in MajorOutlets : Contains(domain, brand)
    THEN 80 + (hash(domain) % 20)
    ELSE IF FirstLabelLen(domain) > 15
    THEN 20 + (hash(domain) % 30)
    ELSE 30 + (hash(domain) % 50)

\* The effort tiers with Hard and Medium exchanged.
determine_effort_level_swapped(da, domain) ==
    IF da >= 80 THEN "Medium"
    ELSE IF da >= 50 THEN "Hard"
    ELSE "Easy"

determine_effort_level(da, domain) ==
    IF da >= 80 THEN "Hard"
    ELSE IF da >= 50 THEN "Medium"
    ELSE "Easy"

potential_domains ==
    <<<<"t","e","c","h","c","r","u","n","c","h",".","c","o","m">>,
      <<"f","o","r","b","e","s",".","c","o","m">>,
      <<"e","n","t","r","e","p","r","e","n","e","u","r",".","c","o","m">>,
      <<"i","n","c",".","c","o","m">>,
      <<"f","a","s","t","c","o","m","p","a","n","y",".","c","o","m">>,
      <<"b","u","s","i","n","e","s","s","i","n","s","i","d","e","r",".","c","o","m">>,
      <<"m","a","s","h","a","b","l","e",".","c","o","m">>,
      <<"v","e","n","t","u","r","e","b","e","a","t",".","c","o","m">>,
      <<"w","i","r","e","d",".","c","o","m">>,
      <<"a","r","s","t","e","c","h","n","i","c","a",".","c","o","m">>,
      <<"i","n","d","u","s","t","r","y","b","l","o","g",".","n","e","t">>,
      <<"s","m","a","l","l","b","u","s","i","n","e","s","s",".","c","o","m">>,
      <<"s","t","a","r","t","u","p","n","e","w","s",".","c","o","m">>,
      <<"d","i","g","i","t","a","l","t","r","e","n","d","s",".","c","o","m">>,
      <<"m","a","r","k","e","t","i","n","g","l","a","n","d",".","c","o","m">>,
      <<"s","e","a","r","c","h","e","n","g","i","n","e","l","a","n","d",".","c","o","m">>,
      <<"m","o","z",".","c","o","m">>,
      <<"s","e","m","r","u","s","h",".","c","o","m">>,
      <<"h","u","b","s","p","o","t",".","c","o","m">>,
      <<"c","o","n","t","e","n","t","m","a","r","k","e","t","i","n","g","i","n","s","t","i","t","u","t","e",".","c","o","m">>,
      <<"s","o","c","i","a","l","m","e","d","i","a","e","x","a","m","i","n","e","r",".","c","o","m">>,
      <<"c","o","p","y","b","l","o","g","g","e","r",".","c","o","m">>>>

\* hash(domain + competitors[k] if len(competitors) > k else "") % 3 == 0, for
\* the slot k (0 or 1): the conditional expression covers the whole sum.
has_comp(domain, competitors, k) ==
    hash(IF Len(competitors) > k THEN domain \o competitors[k + 1] ELSE <<>>) % 3 = 0

\* The candidate's entry, as the loop body builds it.
GapOf(domain, your_domain, competitors) ==
    LET da == analyze_domain_authority(domain) IN
    [linking_domain |-> domain,
     da |-> da,
     your_site |-> (hash(domain \o your_domain) % 5 = 0),
     competitor_a |-> has_comp(domain, competitors, 0),
     competitor_b |-> has_comp(domain, competitors, 1),
     effort_level |-> determine_effort_level(da, domain),
     potential_value |-> IF da < 100 THEN da ELSE 100]

\* The two tests with the second one read as a or (b and not y).
GapKept_misgrouped(g, min_da) ==
    g.da >= min_da /\ (g.competitor_a \/ (g.competitor_b /\ ~g.your_site))

\* The two tests of the loop body: da >= min_da, then
\* (has_comp_a or has_comp_b) and not your_site_linked.
GapKept(g, min_da) ==
    g.da >= min_da /\ ((g.competitor_a \/ g.competitor_b) /\ ~g.your_site)

RECURSIVE GapLoop(_, _, _, _)
\* The loop over the candidates: gaps in the order of the pool.
GapLoop(domains, your_domain, competitors, min_da) ==
    IF domains = <<>> THEN <<>>
    ELSE LET g == GapOf(Head(domains), your_domain, competitors)
             rest == GapLoop(Tail(domains), your_domain, competitors, min_da)
         IN  IF GapKept(g, min_da) THEN <<g>> \o rest ELSE rest

\* The insertion that puts g before the entries of equal authority.
InsertByDa_tiesfirst(sorted, g) ==
    LET k == Cardinality({i \in DOMAIN sorted : sorted[i].da > g.da}) IN
    SubSeq(sorted, 1, k) \o <<g>> \o SubSeq(sorted, k + 1, Len(sorted))

\* One step of the stable descending sort: g goes behind every entry whose
\* authority is greater than or equal to its own.
InsertByDa(sorted, g) ==
    LET k == Cardinality({i \in DOMAIN sorted : sorted[i].da >= g.da}) IN
    SubSeq(sorted, 1, k) \o <<g>> \o SubSeq(sorted, k + 1, Len(sorted))

RECURSIVE SortedByDaDesc(_)
\* sorted(gaps, key=lambda x: x["da"], reverse=True)
SortedByDaDesc(gaps) ==
    IF gaps = <<>> THEN <<>>
    ELSE InsertByDa(SortedByDaDesc(SubSeq(gaps, 1, Len(gaps) - 1)), gaps[Len(gaps)])

generate_link_opportunities(your_domain, competitors, min_da) ==
    SortedByDaDesc(GapLoop(SubSeq(potential_domains, 1, 15),
                           your_domain, competitors, min_da))

(***************************************************************************)
(* Specification SpecGaps: generate_link_opportunities applied to drawn    *)
(* arguments, in a process that may be replaced by a new one.              *)
(***************************************************************************)
dYourDomain == <<"y","o","u","r","d","o","m","a","i","n",".","c","o","m">>
dMySite == <<"m","y","s","i","t","e",".","c","o","m">>
dRival == <<"r","i","v","a","l",".","c","o","m">>
dOther == <<"o","t","h","e","r",".","i","o">>
dThird == <<"t","h","i","r","d",".","o","r","g">>

GapYourDomains == {dYourDomain, dMySite}
GapCompetitors == {<<>>, <<dRival>>, <<dRival, dOther>>, <<dOther, dRival, dThird>>}
GapMinDAs == {0, 60, 90}

InitGaps ==
    /\ store = demo_rows
    /\ imp = NoImport
    /\ resp = NoResp
    /\ args \in [fn : {"gaps"}, your_domain : GapYourDomains,
                 competitors : GapCompetitors, min_da : GapMinDAs]
    /\ gaplinks = <<>>
    /\ salt \in Salts
    /\ gsc = NoGsc
    /\ req = NoRequests

GenerateGaps ==
    /\ resp' = [kind |-> "gaps",
                gaps |-> generate_link_opportunities(args.your_domain,
                                                     args.competitors, args.min_da)]
    /\ UNCHANGED <<store, imp, args, gaplinks, salt, gsc, req>>

\* The process ends and a new one starts on the same database: the new
\* process draws its own hash key, lifespan seeds the demo rows only into an
\* empty table, a request that was in progress is gone, and the new process
\* has no GSC analyzer yet (its service is unset until the next setup).
Restart ==
    /\ salt' \in Salts
    /\ store' = IF store = <<>> THEN demo_rows ELSE store
    /\ imp' = NoImport
    /\ gsc' = [gsc EXCEPT !.service = FALSE]
    /\ req' = NoRequests
    /\ UNCHANGED <<resp, args, gaplinks>>

NextGaps ==
    \/ GenerateGaps
    \/ Restart

SpecGaps == InitGaps /\ [][NextGaps]_vars

\* C12: two calls of generate_link_opportunities with identical arguments
\* return identical ordered results, also when the second call is made in
\* another process than the first.
C12_SameArgsSameGaps ==
    [][(resp.kind = "gaps" /\ resp'.kind = "gaps" /\ args' = args)
          => resp'.gaps = resp.gaps]_vars

\* The three conditions of C13 for a candidate, from its authority and flags.
Qualifies(domain, a) ==
    /\ analyze_domain_authority(domain) >= a.min_da
    /\ has_comp(domain, a.competitors, 0) \/ has_comp(domain, a.competitors, 1)
    /\ ~(hash(domain \o a.your_domain) % 5 = 0)

\* The candidates the generator iterates over.
Candidates == {potential_domains[i] : i \in 1..15}

\* C13: when generate_link_opportunities answers, each of the first 15 pool
\* entries is in the output exactly when its authority >= min_da, one of its
\* competitor flags is true and its own-site flag is false; no entry of the
\* output has da < min_da, both competitor flags false, or your_site true.
C13_GapsExactlyQualifying ==
    [][resp' # resp =>
          LET gaps == resp'.gaps IN
          /\ \A d \in Candidates :
                (\E k \in DOMAIN gaps : gaps[k].linking_domain = d)
                    <=> Qualifies(d, args)
          /\ \A k \in DOMAIN gaps :
                /\ gaps[k].linking_domain \in Candidates
                /\ gaps[k].da >= args.min_da
                /\ gaps[k].competitor_a \/ gaps[k].competitor_b
                /\ ~gaps[k].your_site]_vars

\* C13 witness: an answered call whose output holds a candidate, and which
\* left out one candidate for its authority, one for its competitor flags and
\* one for its own-site flag alone.
C13_Witness ==
    /\ resp.kind = "gaps"
    /\ resp.gaps = generate_link_opportunities(args.your_domain, args.competitors,
                                               args.min_da)
    /\ Len(resp.gaps) > 0
    /\ \E d \in Candidates :
          /\ analyze_domain_authority(d) < args.min_da
          /\ has_comp(d, args.competitors, 0)
          /\ hash(d \o args.your_domain) % 5 # 0
    /\ \E d \in Candidates :
          /\ analyze_domain_authority(d) >= args.min_da
          /\ ~has_comp(d, args.competitors, 0) /\ ~has_comp(d, args.competitors, 1)
          /\ hash(d \o args.your_domain) % 5 # 0
    /\ \E d \in Candidates :
          /\ analyze_domain_authority(d) >= args.min_da
          /\ has_comp(d, args.competitors, 0)
          /\ hash(d \o args.your_domain) % 5 = 0

\* The position of a domain in the candidate pool.
PoolIndex(domain) ==
    CHOOSE i \in DOMAIN potential_domains : potential_domains[i] = domain

\* C14: the returned list is in descending order of authority, and entries
\* of equal authority are in the order of their domains in the pool.
C14_SortedStable ==
    resp.kind = "gaps" =>
        \A i, j \in DOMAIN resp.gaps :
            i < j =>
                /\ resp.gaps[i].da >= resp.gaps[j].da
                /\ resp.gaps[i].da = resp.gaps[j].da =>
                      PoolIndex(resp.gaps[i].linking_domain)
                          < PoolIndex(resp.gaps[j].linking_domain)

\* C14 witness: a returned list with two entries of equal authority and with
\* an entry placed before one that precedes it in the pool.
C14_Witness ==
    /\ resp.kind = "gaps"
    /\ \E i, j \in DOMAIN resp.gaps :
          i < j /\ resp.gaps[i].da = resp.gaps[j].da
    /\ \E i, j \in DOMAIN resp.gaps :
          /\ i < j
          /\ PoolIndex(resp.gaps[i].linking_domain)
                > PoolIndex(resp.gaps[j].linking_domain)

(***************************************************************************)
(* competitor_analyze (POST /backlinkapi/competitors/analyze)              *)
(***************************************************************************)
\* {"Easy": 20, "Medium": 50, "Hard": 80}.get(effort_level, 50)
EffortScore(effort_level) ==
    IF effort_level = "Easy" THEN 20
    ELSE IF effort_level = "Medium" THEN 50
    ELSE IF effort_level = "Hard" THEN 80
    ELSE 50

\* The radius without the lower clamp: min(20, da // 5).
BubbleRadius_nofloor(da) ==
    LET q == da \div 5
    IN  IF q < 20 THEN q ELSE 20

\* max(8, min(20, da // 5))
BubbleRadius(da) ==
    LET q == da \div 5
        capped == IF q < 20 THEN q ELSE 20
    IN  IF capped > 8 THEN capped ELSE 8

BubbleOf(gap) ==
    [effort |-> EffortScore(gap.effort_level),
     value |-> gap.potential_value,
     radius |-> BubbleRadius(gap.da),
     domain |-> gap.linking_domain]

RECURSIVE SumGapDA(_)
\* sum(g["da"] for g in gaps)
SumGapDA(gaps) == IF gaps = <<>> THEN 0 ELSE Head(gaps).da + SumGapDA(Tail(gaps))

\* len([g for g in gaps if g["effort_level"] == level])
CountEffort(gaps, level) ==
    Cardinality({i \in DOMAIN gaps : gaps[i].effort_level = level})

RECURSIVE StoreGaps_nolookup(_, _)
\* The storing loop without the select: every gap is added.
StoreGaps_nolookup(table, gaps) ==
    IF gaps = <<>> THEN table
    ELSE StoreGaps_nolookup(Append(table, Head(gaps)), Tail(gaps))

RECURSIVE StoreGaps(_, _)
\* The storing loop: a gap is added unless a row with its linking_domain is
\* found (rows added earlier in the loop are seen: the select flushes them).
StoreGaps(table, gaps) ==
    IF gaps = <<>> THEN table
    ELSE LET gap == Head(gaps)
             existing == \E i \in DOMAIN table :
                            table[i].linking_domain = gap.linking_domain
         IN  StoreGaps(IF existing THEN table ELSE Append(table, gap), Tail(gaps))

\* payload.get("competitors", [])[:5]
FirstFive(competitors) ==
    SubSeq(competitors, 1, IF Len(competitors) < 5 THEN Len(competitors) ELSE 5)

\* The handler. An absent key of the payload is None. dbok is whether the
\* commit goes through; int() of min_da or the commit may raise, which the
\* handler answers with a 500 and nothing stored.
CompetitorAnalyze(payload, dbok) ==
    LET your_domain == IF payload.your_domain = None THEN dYourDomain
                       ELSE payload.your_domain.str
        competitors == FirstFive(IF payload.competitors = None THEN <<>>
                                 ELSE payload.competitors.list)
        min_da == IntOf(IF payload.min_da = None THEN PyInt(0) ELSE payload.min_da)
    IN  /\ args' = [fn |-> "competitor", payload |-> payload]
        /\ IF min_da.raised \/ ~dbok
           THEN /\ resp' = HTTPError(500)
                /\ UNCHANGED gaplinks
           ELSE \E gaps \in {generate_link_opportunities(your_domain, competitors,
                                                         min_da.value.int)} :
                    /\ gaplinks' = StoreGaps(gaplinks, gaps)
                    /\ resp' =
                         [kind |-> "competitor",
                          status |-> "success",
                          your_domain |-> your_domain,
                          competitors_analyzed |-> Len(competitors),
                          gaps |-> gaps,
                          bubbles |-> [i \in DOMAIN gaps |-> BubbleOf(gaps[i])],
                          summary |->
                             [total_opportunities |-> Len(gaps),
                              easy_targets |-> CountEffort(gaps, "Easy"),
                              medium_targets |-> CountEffort(gaps, "Medium"),
                              hard_targets |-> CountEffort(gaps, "Hard"),
                              avg_da |-> IF Len(gaps) > 0
                                         THEN SumGapDA(gaps) \div Len(gaps) ELSE 0]]
        /\ UNCHANGED <<store, imp, salt, gsc, req>>

dFourth == <<"f","o","u","r","t","h",".","d","e","v">>
dFifth == <<"f","i","f","t","h",".","c","o">>
dSixth == <<"s","i","x","t","h",".","b","i","z">>

PyList(l) == [list |-> l]

Payload(y, c, m) == [your_domain |-> y, competitors |-> c, min_da |-> m]

CompetitorPayloads ==
    {Payload(None, PyList(<<dRival, dOther>>), None),
     Payload(PyStr(dMySite), PyList(<<dRival>>), PyInt(60)),
     Payload(PyStr(dMySite), PyList(<<dOther, dRival, dThird, dFourth, dFifth, dSixth>>),
             PyStr(s25)),
     Payload(None, None, PyStr(sAbc))}

(***************************************************************************)
(* Specification SpecCompetitor: competitor_analyze requests, one after    *)
(* the other, in one process on the seeded database.                       *)
(***************************************************************************)
NextCompetitor ==
    \E payload \in CompetitorPayloads, dbok \in BOOLEAN :
        CompetitorAnalyze(payload, dbok)

SpecCompetitor == Init /\ [][NextCompetitor]_vars

\* C15: over sequential competitor_analyze requests the CompetitorGapLink
\* table never holds two rows with the same linking_domain; a request leaves
\* every recorded row as it is and adds no row for a recorded domain; and the
\* response of a request that succeeds lists every gap computed for it, the
\* ones whose domain was already recorded included.
C15_OneRowPerDomain ==
    [][/\ \A i, j \in DOMAIN gaplinks' :
              gaplinks'[i].linking_domain = gaplinks'[j].linking_domain => i = j
       /\ Len(gaplinks') >= Len(gaplinks)
       /\ SubSeq(gaplinks', 1, Len(gaplinks)) = gaplinks
       /\ (<<args, resp>>' # <<args, resp>> /\ resp'.kind = "competitor") =>
              LET p == args'.payload
                  gaps == generate_link_opportunities(
                              IF p.your_domain = None THEN dYourDomain
                              ELSE p.your_domain.str,
                              FirstFive(IF p.competitors = None THEN <<>>
                                        ELSE p.competitors.list),
                              IntOf(IF p.min_da = None THEN PyInt(0)
                                    ELSE p.min_da).value.int)
              IN  /\ resp'.gaps = gaps
                  /\ \A k \in DOMAIN resp'.gaps :
                        \E i \in DOMAIN gaplinks' :
                            gaplinks'[i].linking_domain = resp'.gaps[k].linking_domain
      ]_vars

\* C15 witness: a request has answered with a gap whose domain was recorded
\* by an earlier request with other values; the recorded row is still the
\* earlier one and the gap is listed.
C15_Witness ==
    /\ resp.kind = "competitor"
    /\ \E k \in DOMAIN resp.gaps, i \in DOMAIN gaplinks :
          /\ gaplinks[i].linking_domain = resp.gaps[k].linking_domain
          /\ gaplinks[i] # resp.gaps[k]

(***************************************************************************)
(* The handlers that read the Backlink table                               *)
(***************************************************************************)
\* POST /backlinkapi/analyze: the summary of the table, and the GSC part when
\* source is "GSC" and a domain is given. The GSC analysis is skipped as
\* "unauthenticated" while the analyzer's service is unset; otherwise outcome
\* is what the analysis does: "ok" or "failed".
AnalyzeDomain(payload, outcome) ==
    LET source == IF payload.source = None THEN "GSC" ELSE payload.source.name
        done == IF gsc.service THEN outcome ELSE "unauthenticated"
    IN
    /\ args' = [fn |-> "analyze", payload |-> payload, gsc |-> done]
    /\ resp' = [kind |-> "analysis",
                domain |-> payload.domain,
                source |-> source,
                summary |-> backlinks_summary(store),
                gsc |-> IF source = "GSC" /\ Truthy(payload.domain)
                        THEN (IF done = "ok" THEN [enabled |-> TRUE, error |-> "none"]
                              ELSE IF done = "unauthenticated"
                              THEN [enabled |-> FALSE, error |-> "GSC not authenticated"]
                              ELSE [enabled |-> FALSE, error |-> "analysis failed"])
                        ELSE [enabled |-> FALSE, error |-> "none"]]
    /\ UNCHANGED <<store, imp, gaplinks, salt, gsc, req>>

AnalyzePayloads ==
    {[domain |-> PyStr(dMySite), source |-> None],
     [domain |-> None, source |-> [name |-> "Ahrefs"]]}
GscOutcomes == {"ok", "failed"}

\* The where clauses of get_backlinks: a filter applies when its argument is
\* truthy (risk_level, link_type) or not None (min_da, max_da); a comparison
\* with a NULL column selects nothing.
Matches(r, q) ==
    /\ Truthy(q.risk_level) => r.risk_level = q.risk_level
    /\ q.min_da # None =>
          (r.domain_authority # None /\ r.domain_authority.int >= q.min_da.int)
    /\ q.max_da # None =>
          (r.domain_authority # None /\ r.domain_authority.int <= q.max_da.int)
    /\ Truthy(q.link_type) => r.link_type = q.link_type

\* query.offset(offset).limit(limit) on the selected rows
Page(rows, offset, limit) ==
    SubSeq(rows, offset + 1,
           IF offset + limit < Len(rows) THEN offset + limit ELSE Len(rows))

\* GET /backlinkapi/backlinks
GetBacklinks(q) ==
    /\ args' = [fn |-> "list", query |-> q]
    /\ resp' = LET backlinks == Page(SelectSeq(store, LAMBDA r : Matches(r, q)),
                                     q.offset, q.limit)
               IN  [kind |-> "list", backlinks |-> backlinks, total |-> Len(backlinks),
                    limit |-> q.limit, offset |-> q.offset]
    /\ UNCHANGED <<store, imp, gaplinks, salt, gsc, req>>

Query(risk_level, min_da, max_da, link_type, limit, offset) ==
    [risk_level |-> risk_level, min_da |-> min_da, max_da |-> max_da,
     link_type |-> link_type, limit |-> limit, offset |-> offset]

ListQueries ==
    {Query(None, None, None, None, 100, 0),
     Query(PyStr(sHigh), PyInt(5), PyInt(30), PyStr(sFooter), 1, 1)}

\* GET /backlinkapi/backlinks/{backlink_id}: the id of a row is its position
\* in the table (autoincrement key, rows are never deleted).
GetBacklink(backlink_id) ==
    /\ args' = [fn |-> "get", backlink_id |-> backlink_id]
    /\ resp' = IF backlink_id \in DOMAIN store
               THEN [kind |-> "backlink", id |-> backlink_id,
                     backlink |-> store[backlink_id]]
               ELSE HTTPError(404)
    /\ UNCHANGED <<store, imp, gaplinks, salt, gsc, req>>

BacklinkIds == {1, 4, 9}

\* A cell as csv.writer writes it: nothing for None, str(value) otherwise; a
\* date is kept as the timestamp it prints.
CsvCell(v) ==
    IF v = None THEN PyStr(<<>>)
    ELSE IF DOMAIN v \in {{"now"}, {"nat"}, {"ts"}} THEN v
    ELSE PyStr(ToStr(v))

CsvLine(r) ==
    <<CsvCell(r.backlink_source), CsvCell(r.source_domain), CsvCell(r.anchor_text),
      CsvCell(r.target_url), CsvCell(r.domain_authority), CsvCell(r.nofollow),
      CsvCell(r.date_found), CsvCell(r.link_type), CsvCell(r.risk_level)>>

\* GET /backlinkapi/export/backlinks.csv
ExportBacklinksCsv ==
    /\ args' = [fn |-> "export"]
    /\ resp' = [kind |-> "csv", lines |-> [i \in DOMAIN store |-> CsvLine(store[i])]]
    /\ UNCHANGED <<store, imp, gaplinks, salt, gsc, req>>

(***************************************************************************)
(* Specification SpecOps: every operation on the Backlink table and the    *)
(* competitor analysis, in any order, on the seeded database.              *)
(***************************************************************************)
OpsUploads == {Upload(fLowerCsv, FrameGoodFull), Upload(fLowerCsv, FrameNoRows)}
OpsPayloads == {Payload(None, PyList(<<dRival, dOther>>), None)}

NextOps ==
    \/ \E u \in OpsUploads : ImportStart(u)
    \/ ImportRow
    \/ \E dbok \in BOOLEAN : ImportCommit(dbok)
    \/ GetSummary
    \/ \E payload \in AnalyzePayloads, outcome \in GscOutcomes :
           AnalyzeDomain(payload, outcome)
    \/ \E q \in ListQueries : GetBacklinks(q)
    \/ \E backlink_id \in BacklinkIds : GetBacklink(backlink_id)
    \/ ExportBacklinksCsv
    \/ \E payload \in OpsPayloads, dbok \in BOOLEAN : CompetitorAnalyze(payload, dbok)

SpecOps == Init /\ [][NextOps]_vars

\* C16: over any sequence of imports, summaries, analyses, listings, gets,
\* exports and competitor analyses, the stored Backlink records stay as they
\* are and in place (the table only grows at its end), and the table changes
\* only in the step in which an import commits and reports; every other
\* operation leaves it unchanged.
C16_StoreAppendOnly ==
    [][/\ Len(store') >= Len(store)
       /\ SubSeq(store', 1, Len(store)) = store
       /\ store' # store =>
             (imp.pc = "rows" /\ imp'.pc = "idle" /\ resp'.kind = "report")
       /\ (args' # args /\ args'.fn \in {"summary", "analyze", "list", "get",
                                          "export", "competitor"})
             => store' = store]_vars

\* C16 witness: an export answered after an import added a row behind the
\* seeded ones; the seeded rows are still the first three.
C16_Witness ==
    /\ Len(store) > Len(demo_rows)
    /\ SubSeq(store, 1, Len(demo_rows)) = demo_rows
    /\ resp.kind = "csv"
    /\ Len(resp.lines) = Len(store)

RiskTiers == {PyStr(sLow), PyStr(sMedium), PyStr(sHigh)}

\* C17: after startup seeding and any sequence of imports, every stored
\* Backlink has risk_level in {low, medium, high}, and calculate_risk_level
\* run again on the stored inputs returns one (and, being a function of its
\* three arguments alone, the same) tier.
C17_RiskLevelIsTier ==
    \A i \in DOMAIN store :
        /\ store[i].risk_level \in RiskTiers
        /\ calculate_risk_level(store[i].domain_authority, store[i].nofollow,
                                store[i].link_type) \in RiskTiers

\* C17 witness: imports have added two rows of different tiers behind the
\* seeded rows.
C17_Witness ==
    /\ resp.kind = "report"
    /\ \E i, j \in DOMAIN store :
          /\ i > Len(demo_rows) /\ j > Len(demo_rows)
          /\ store[i].risk_level # store[j].risk_level

\* C18: after any sequence of imports, every stored Backlink's
\* domain_authority is absent or an integer within 0..100.
C18_AuthorityInRange ==
    \A i \in DOMAIN store :
        \/ store[i].domain_authority = None
        \/ /\ IsInt(store[i].domain_authority)
           /\ store[i].domain_authority.int >= 0
           /\ store[i].domain_authority.int <= 100

\* The number of rows of a table equal to r.
Occurrences(table, r) == Cardinality({i \in DOMAIN table : table[i] = r})

\* C19: an import that commits adds every row of its batch that does not
\* raise once more, whether or not the table already holds equal rows (a
\* batch imported a second time is stored a second time), and the inserted
\* and errors counts of its report are those of the batch alone, so two
\* imports of the same batch report the same counts.
C19_NoDeduplication ==
    [][(imp.pc = "rows" /\ imp'.pc = "idle" /\ resp'.kind = "report") =>
          LET kept == PersistedOf(imp.df.columns, imp.df.rows) IN
          /\ \A k \in DOMAIN kept :
                Occurrences(store', kept[k])
                    = Occurrences(store, kept[k]) + Occurrences(kept, kept[k])
          /\ <<resp'.inserted, resp'.errors>>
                = <<Len(kept), Len(imp.df.rows) - Len(kept)>>]_vars

\* C19 witness: the same one-row batch has been imported twice: the table
\* holds its row twice behind the seeded rows and the second report says
\* inserted = 1.
C19_Witness ==
    /\ args.fn = "import"
    /\ args.file.content.parse = "ok"
    /\ resp.kind = "report"
    /\ resp.inserted = 1
    /\ LET kept == PersistedOf(args.file.content.df.columns,
                               args.file.content.df.rows)
       IN  /\ Len(kept) = 1
           /\ store = demo_rows \o kept \o kept

\* C22: every returned opportunity has effort_level Hard when its authority
\* is at least 80, Medium when it is at least 50 and below 80, Easy below 50,
\* and potential_value equal to the smaller of its authority and 100.
C22_EffortAndValue ==
    resp.kind = "gaps" =>
        \A k \in DOMAIN resp.gaps :
            LET g == resp.gaps[k] IN
            /\ g.da >= 80 => g.effort_level = "Hard"
            /\ (g.da >= 50 /\ g.da < 80) => g.effort_level = "Medium"
            /\ g.da < 50 => g.effort_level = "Easy"
            /\ g.potential_value <= 100
            /\ g.potential_value <= g.da
            /\ g.potential_value = g.da \/ g.potential_value = 100

\* C22 witness: a returned list that holds an opportunity of each tier.
C22_Witness ==
    /\ resp.kind = "gaps"
    /\ \E k \in DOMAIN resp.gaps : resp.gaps[k].da >= 80
    /\ \E k \in DOMAIN resp.gaps : resp.gaps[k].da >= 50 /\ resp.gaps[k].da < 80
    /\ \E k \in DOMAIN resp.gaps : resp.gaps[k].da < 50

\* C23: a competitor flag is true only for a slot for which a competitor
\* domain was supplied: with an empty competitor list the generator returns
\* no opportunity, and with a single competitor competitor_b is false on
\* every returned opportunity.
C23_FlagsNeedCompetitor ==
    resp.kind = "gaps" =>
        /\ Len(args.competitors) = 0 => resp.gaps = <<>>
        /\ \A k \in DOMAIN resp.gaps :
              /\ resp.gaps[k].competitor_a => Len(args.competitors) >= 1
              /\ resp.gaps[k].competitor_b => Len(args.competitors) >= 2

(***************************************************************************)
(* Specification SpecAuthority: analyze_domain_authority applied to drawn  *)
(* domain strings under drawn hash keys.                                   *)
(***************************************************************************)
MaxAuthorityKey == 11
AuthorityKeys == 0..MaxAuthorityKey

AuthorityDomains ==
    {<<"m","i","t",".","e","d","u">>,
     <<"n","a","s","a",".","g","o","v">>,
     <<"l","e","a","r","n",".","e","d","u","c","a","t","i","o","n",".","c","o","m">>,
     <<"c","n","n",".","e","d","u">>,
     <<"t","e","c","h","c","r","u","n","c","h",".","c","o","m">>,
     <<"b","b","c",".","c","o",".","u","k">>,
     <<"f","o","r","b","e","s","-","f","a","n","s",".","n","e","t">>,
     <<"c","o","n","t","e","n","t","m","a","r","k","e","t","i","n","g","i","n","s","t","i","t","u","t","e",".","c","o","m">>,
     <<"s","e","a","r","c","h","e","n","g","i","n","e","l","a","n","d",".","c","o","m">>,
     <<"i","n","t","e","r","n","a","t","i","o","n","a","l","g","o","v","e","r","n","a","n","c","e",".","g","o","v">>,
     <<"m","o","z",".","c","o","m">>,
     <<"i","n","c",".","c","o","m">>,
     <<"l","o","c","a","l","h","o","s","t">>,
     <<"a","-","1",".","i","o">>}

InitAuthority ==
    /\ store = <<>>
    /\ imp = NoImport
    /\ resp = NoResp
    /\ args \in [fn : {"authority"}, domain : AuthorityDomains]
    /\ gaplinks = <<>>
    /\ salt \in AuthorityKeys
    /\ gsc = NoGsc
    /\ req = NoRequests

AnalyzeAuthority ==
    /\ resp' = [kind |-> "authority", value |-> analyze_domain_authority(args.domain)]
    /\ UNCHANGED <<store, imp, args, gaplinks, salt, gsc, req>>

NextAuthority == AnalyzeAuthority

SpecAuthority == InitAuthority /\ [][NextAuthority]_vars

\* C24: for every domain string and every hash value, the score is within
\* 85..99 if the domain is an .edu/.gov domain (its name ends in .edu or
\* .gov), else within 80..99 if it contains techcrunch, forbes, cnn or bbc,
\* else within 20..49 if its first dot-separated label has more than 15
\* characters, else within 30..79; so it is always within 0..100.
C24_AuthorityRanges ==
    resp.kind = "authority" =>
        LET d == args.domain
            v == resp.value
        IN  /\ v >= 0 /\ v <= 100
            /\ IF EndsWith(d, sDotEdu) \/ EndsWith(d, sDotGov)
               THEN v >= 85 /\ v <= 99
               ELSE IF \E brand \in MajorOutlets : Contains(d, brand)
               THEN v >= 80 /\ v <= 99
               ELSE IF FirstLabelLen(d) > 15
               THEN v >= 20 /\ v <= 49
               ELSE v >= 30 /\ v <= 79

(***************************************************************************)
(* Specification SpecNofollow: parse_bool applied to drawn values, and the *)
(* row the importer builds from a batch with or without a nofollow column. *)
(***************************************************************************)
bOne == <<"1">>
bZero == <<"0">>
bTrueLower == <<"t","r","u","e">>
bTrueUpper == <<"T","R","U","E">>
bPaddedYes == <<" ","Y","E","S"," ">>
bUpperY == <<"Y">>
bLowerY == <<"y">>
bOn == <<"o","n">>
bT == <<"t">>
bYess == <<"y","e","s","s">>

\* The values of a nofollow cell of a parsed CSV (a blank cell is nan).
NofollowCells ==
    {PyBool(TRUE), PyBool(FALSE), NaN, PyInt(1), PyInt(0), PyFlt(10),
     PyStr(bOne), PyStr(bZero), PyStr(bTrueLower), PyStr(bTrueUpper),
     PyStr(bPaddedYes), PyStr(bUpperY), PyStr(bLowerY), PyStr(sYes), PyStr(sNo),
     PyStr(bOn), PyStr(bT), PyStr(bYess), PyStr(<<>>)}

InitNofollow ==
    /\ store = <<>>
    /\ imp = NoImport
    /\ resp = NoResp
    /\ args \in [fn : {"parse_bool"}, x : NofollowCells \cup {None},
                 cell : {PyBool(FALSE), NaN, PyStr(sYes), PyStr(<<>>)},
                 mapped : BOOLEAN]
    /\ gaplinks = <<>>
    /\ salt = 0
    /\ gsc = NoGsc
    /\ req = NoRequests

\* The table row of a one-row batch: with a nofollow column holding args.cell
\* (mapped), or without any nofollow alias column.
CoerceNofollow ==
    /\ resp' = [kind |-> "nofollow",
                value |-> parse_bool(args.x),
                stored |-> DBRow(
                    (IF args.mapped
                     THEN ProcessRow(ColsFull,
                              RowFull(PyStr(uPageA), PyStr(aSEO), PyInt(25),
                                      args.cell, PyStr(sFooter)))
                     ELSE ProcessRow(ColsNoDA,
                              RowNoDA(PyStr(uPageA), PyStr(aSEO)))).value)]
    /\ UNCHANGED <<store, imp, args, gaplinks, salt, gsc, req>>

NextNofollow == CoerceNofollow

SpecNofollow == InitNofollow /\ [][NextNofollow]_vars

\* The drawn values whose trimmed, lower-cased text is 1, true, yes or y.
TrueTexts ==
    {PyInt(1), PyStr(bOne), PyStr(bTrueLower), PyStr(bTrueUpper), PyStr(bPaddedYes),
     PyStr(bUpperY), PyStr(bLowerY), PyStr(sYes)}

\* C25: parse_bool returns None for None, the value itself for a boolean,
\* and otherwise True exactly for the values whose trimmed, lower-cased text
\* is one of "1", "true", "yes", "y" and False for every other value; the row
\* the importer stores has an absent nofollow exactly when the batch has no
\* nofollow alias column.
C25_ParseBoolTable ==
    resp.kind = "nofollow" =>
        /\ args.x = None => resp.value = None
        /\ IsBool(args.x) => resp.value = args.x
        /\ (args.x # None /\ ~IsBool(args.x)) =>
              resp.value = PyBool(args.x \in TrueTexts)
        /\ resp.stored.nofollow = None <=> ~args.mapped

\* C25 witness: the padded upper-case text " YES " has been coerced to True,
\* and the row of a batch whose nofollow cell is blank is stored with
\* nofollow False.
C25_Witness ==
    /\ resp.kind = "nofollow"
    /\ args.x = PyStr(bPaddedYes)
    /\ resp.value = PyBool(TRUE)
    /\ args.mapped
    /\ args.cell = NaN
    /\ resp.stored.nofollow = PyBool(FALSE)

\* C26: a competitor_analyze response has exactly one bubble per returned
\* gap, in the same order, with effort 20 for Easy, 50 for Medium, 80 for
\* Hard, value the gap's potential_value, and radius the authority divided by
\* 5, rounded down, clamped to 8..20.
C26_BubblePerGap ==
    resp.kind = "competitor" =>
        /\ Len(resp.bubbles) = Len(resp.gaps)
        /\ \A i \in DOMAIN resp.gaps :
              LET gap == resp.gaps[i]
                  b == resp.bubbles[i]
              IN  /\ b.domain = gap.linking_domain
                  /\ gap.effort_level = "Easy" => b.effort = 20
                  /\ gap.effort_level = "Medium" => b.effort = 50
                  /\ gap.effort_level = "Hard" => b.effort = 80
                  /\ gap.effort_level \in {"Easy", "Medium", "Hard"}
                  /\ b.value = gap.potential_value
                  /\ b.radius \in 8..20
                  /\ gap.da < 40 => b.radius = 8
                  /\ gap.da >= 100 => b.radius = 20
                  /\ (gap.da >= 40 /\ gap.da < 100) =>
                        (5 * b.radius <= gap.da /\ gap.da < 5 * b.radius + 5)

\* C26 witness: a response whose bubbles include one clamped up to radius 8
\* (authority below 40) and one of another effort with a larger radius.
C26_Witness ==
    /\ resp.kind = "competitor"
    /\ \E i, j \in DOMAIN resp.bubbles :
          /\ resp.gaps[i].da < 40
          /\ resp.bubbles[i].radius = 8
          /\ resp.bubbles[j].radius > 8
          /\ resp.bubbles[i].effort # resp.bubbles[j].effort

(***************************************************************************)
(* Specification SpecTail: competitor_analyze requests that share          *)
(* your_domain, min_da and the first competitors and differ in the later   *)
(* ones, with process restarts between them.                               *)
(***************************************************************************)
TailPayloads ==
    {Payload(PyStr(dMySite), PyList(<<dRival, dOther>>), PyInt(80)),
     Payload(PyStr(dMySite), PyList(<<dRival, dOther, dThird>>), PyInt(80)),
     Payload(PyStr(dMySite),
             PyList(<<dRival, dOther, dFourth, dFifth, dSixth, dThird>>), PyInt(80)),
     Payload(PyStr(dMySite), PyList(<<dRival, dThird>>), PyInt(80))}

NextTail ==
    \/ \E payload \in TailPayloads, dbok \in BOOLEAN :
           CompetitorAnalyze(payload, dbok)
    \/ Restart

SpecTail == Init /\ [][NextTail]_vars

\* The first two entries of a competitor list.
FirstTwo(l) == SubSeq(l, 1, IF Len(l) < 2 THEN Len(l) ELSE 2)

\* C29: the gaps and bubbles of a competitor_analyze response depend only on
\* your_domain, min_da and the first two competitors: a request answered
\* after another one that agrees with it on these returns the same gaps and
\* bubbles; and competitors_analyzed is the number of competitors supplied,
\* capped at 5.
C29_TailCompetitorsIgnored ==
    [][(<<args, resp>>' # <<args, resp>> /\ resp'.kind = "competitor") =>
          LET q == args'.payload
              n == Len(q.competitors.list)
          IN  /\ resp'.competitors_analyzed = (IF n < 5 THEN n ELSE 5)
              /\ (/\ resp.kind = "competitor"
                  /\ args.payload.your_domain = q.your_domain
                  /\ args.payload.min_da = q.min_da
                  /\ FirstTwo(args.payload.competitors.list) = FirstTwo(q.competitors.list))
                 => (resp'.gaps = resp.gaps /\ resp'.bubbles = resp.bubbles)]_vars

(***************************************************************************)
(* The Google Search Console handlers                                      *)
(***************************************************************************)
MaxAnalyses == 2

\* What get_verified_sites returns (an empty list on any error of the API).
GscSites == {<<>>, <<dMySite>>}

\* What analyze_domain_comprehensive collects from the API: the overview
\* row, the number of top queries, and the search-analytics queries it made.
GscResults ==
    {[total_clicks |-> 0, total_impressions |-> 0, top_queries |-> 0, queries |-> 7],
     [total_clicks |-> 12, total_impressions |-> 340, top_queries |-> 2, queries |-> 7]}

\* POST /backlinkapi/gsc/setup. flow is whether authenticate() goes through
\* (a saved token or the OAuth flow); it sets the service as its last step,
\* and any exception is answered with a 500.
SetupGsc(flow, sites) ==
    /\ args' = [fn |-> "gsc_setup", queries |-> 0]
    /\ IF flow
       THEN /\ gsc' = [gsc EXCEPT !.service = TRUE]
            /\ resp' = [kind |-> "gsc_setup", status |-> "success",
                        verified_sites |-> sites]
       ELSE /\ resp' = HTTPError(500)
            /\ UNCHANGED gsc
    /\ UNCHANGED <<store, imp, gaplinks, salt, req>>

\* GET /backlinkapi/gsc/sites. The HTTPException(401) is raised inside the
\* try block, whose only handler is "except Exception": it is caught and
\* raised again as a 500.
GetGscSites(sites) ==
    /\ args' = [fn |-> "gsc_sites", queries |-> 0]
    /\ resp' = IF ~gsc.service THEN HTTPError(500)
               ELSE [kind |-> "gsc_sites", verified_sites |-> sites]
    /\ UNCHANGED <<store, imp, gaplinks, salt, gsc, req>>

\* POST /backlinkapi/gsc/analyze. An absent key of the payload is None.
\* Here "except HTTPException: raise" keeps the 400 and the 401; a days_back
\* that timedelta rejects, or a failed commit, is answered with a 500.
AnalyzeGscDomain(payload, results, dbok) ==
    LET site_url == payload.site_url
        days_back == IF payload.days_back = None THEN PyInt(30) ELSE payload.days_back
        called == Truthy(site_url) /\ gsc.service /\ (IsInt(days_back) \/ IsFlt(days_back))
    IN  /\ called => Len(gsc.analyses) < MaxAnalyses
        /\ args' = [fn |-> "gsc_analyze", payload |-> payload,
                    queries |-> IF called THEN results.queries ELSE 0]
        /\ IF ~Truthy(site_url)
           THEN resp' = HTTPError(400) /\ UNCHANGED gsc
           ELSE IF ~gsc.service
           THEN resp' = HTTPError(401) /\ UNCHANGED gsc
           ELSE IF ~called \/ ~dbok
           THEN resp' = HTTPError(500) /\ UNCHANGED gsc
           ELSE /\ gsc' = [gsc EXCEPT !.analyses =
                             Append(@, [site_url |-> site_url,
                                        total_clicks |-> results.total_clicks,
                                        total_impressions |-> results.total_impressions,
                                        total_queries |-> results.top_queries])]
                /\ resp' = [kind |-> "gsc_analysis", status |-> "success",
                            analysis_id |-> Len(gsc.analyses) + 1,
                            results |-> results]
        /\ UNCHANGED <<store, imp, gaplinks, salt, req>>

GscPayloads ==
    {[site_url |-> PyStr(dMySite), days_back |-> None],
     [site_url |-> PyStr(dRival), days_back |-> PyInt(7)],
     [site_url |-> PyStr(dMySite), days_back |-> PyStr(sAbc)],
     [site_url |-> None, days_back |-> None],
     [site_url |-> PyStr(<<>>), days_back |-> PyInt(7)]}

(***************************************************************************)
(* Specification SpecGsc: GSC setup, site listing and analyses, domain     *)
(* analyses and process restarts on the seeded database.                   *)
(***************************************************************************)
NextGsc ==
    \/ \E flow \in BOOLEAN, sites \in GscSites : SetupGsc(flow, sites)
    \/ \E sites \in GscSites : GetGscSites(sites)
    \/ \E payload \in GscPayloads, results \in GscResults, dbok \in BOOLEAN :
           AnalyzeGscDomain(payload, results, dbok)
    \/ \E outcome \in GscOutcomes :
           AnalyzeDomain([domain |-> PyStr(dMySite), source |-> None], outcome)
    \/ Restart

SpecGsc == Init /\ [][NextGsc]_vars

\* C30: while the GSC analyzer's service is unset, GET /backlinkapi/gsc/sites
\* and POST /backlinkapi/gsc/analyze with a site_url answer 401, make no
\* search-analytics query and store no GSCAnalysis row; while it is set
\* (after a successful setup) they do not answer 401.
C30_Unauthenticated401 ==
    [][(/\ <<args, resp>>' # <<args, resp>>
        /\ args'.fn \in {"gsc_sites", "gsc_analyze"}
        /\ args'.fn = "gsc_analyze" => Truthy(args'.payload.site_url))
       => /\ ~gsc.service =>
                /\ resp' = HTTPError(401)
                /\ args'.queries = 0
                /\ gsc'.analyses = gsc.analyses
          /\ gsc.service => resp' # HTTPError(401)]_vars

\* C28: a summary computed while an import is in progress reflects none or
\* all of the import's records: the rows of a batch are added to the session
\* and the table stays as it is through the row loop; the one commit after
\* the last row appends every row of the session together, or, when it
\* fails, none and the request ends in 500; and a summary answered meanwhile
\* is the summary of the committed table.
C28_BatchVisibleAtCommit ==
    [][/\ ~(imp.pc = "rows" /\ imp'.pc = "idle") => store' = store
       /\ (imp.pc = "rows" /\ imp'.pc = "idle") =>
             /\ imp.idx > Len(imp.df.rows)
             /\ \/ /\ resp'.kind = "report"
                   /\ Len(store') = Len(store) + Len(imp.session)
                   /\ SubSeq(store', 1, Len(store)) = store
                   /\ \A i \in DOMAIN imp.session :
                         store'[Len(store) + i].backlink_source
                             = imp.session[i].backlink_source
                \/ /\ resp' = HTTPError(500)
                   /\ store' = store
       /\ (/\ <<args, resp>>' # <<args, resp>>
           /\ args'.fn = "summary"
           /\ resp'.kind = "summary") =>
             /\ resp'.cards.total_backlinks = Len(store)
             /\ imp' = imp]_vars

\* C28 witness: a summary answered while an import holds two rows in its
\* session, uncommitted: it counts the committed rows only.
C28_Witness ==
    /\ imp.pc = "rows"
    /\ Len(imp.session) = 2
    /\ args.fn = "summary"
    /\ resp.kind = "summary"
    /\ resp.cards.total_backlinks = Len(store)

(***************************************************************************)
(* competitor_analyze statement by statement, on two worker threads        *)
(***************************************************************************)
MaxGapLinks == 4

\* The response the handler returns once the gaps are stored.
CompetitorResponse(your_domain, competitors, gaps) ==
    [kind |-> "competitor",
     status |-> "success",
     your_domain |-> your_domain,
     competitors_analyzed |-> Len(competitors),
     gaps |-> gaps,
     bubbles |-> [i \in DOMAIN gaps |-> BubbleOf(gaps[i])],
     summary |->
        [total_opportunities |-> Len(gaps),
         easy_targets |-> CountEffort(gaps, "Easy"),
         medium_targets |-> CountEffort(gaps, "Medium"),
         hard_targets |-> CountEffort(gaps, "Hard"),
         avg_da |-> IF Len(gaps) > 0 THEN SumGapDA(gaps) \div Len(gaps) ELSE 0]]

\* The rows a worker's unfinished request may still add.
PendingGaps(w) == IF req[w].pc = "gaps" THEN Len(req[w].gaps) ELSE 0

\* A worker's session holds the database's write lock from its first INSERT
\* (the autoflush before a select, or the flush of the commit) to its commit.
HoldsLock(w) == req[w].pc = "gaps" /\ req[w].flushed > 0

\* The next statement of w flushes added rows while another session holds
\* the write lock.
Blocked(w) ==
    /\ req[w].pc = "gaps"
    /\ Len(req[w].session) > req[w].flushed
    /\ \E v \in Workers \ {w} : HoldsLock(v)

\* The handler up to `with Session(engine) as s`: the arguments, the gaps and
\* the bubbles are computed; int() of min_da may raise (500).
CompetitorAnalyzeStart(w, payload) ==
    LET your_domain == IF payload.your_domain = None THEN dYourDomain
                       ELSE payload.your_domain.str
        competitors == FirstFive(IF payload.competitors = None THEN <<>>
                                 ELSE payload.competitors.list)
        min_da == IntOf(IF payload.min_da = None THEN PyInt(0) ELSE payload.min_da)
    IN  /\ req[w].pc = "idle"
        /\ args' = [fn |-> "competitor", payload |-> payload]
        /\ IF min_da.raised
           THEN resp' = HTTPError(500) /\ UNCHANGED req
           ELSE \E gaps \in {generate_link_opportunities(your_domain, competitors,
                                                         min_da.value.int)} :
                    /\ Len(gaplinks) + PendingGaps(1) + PendingGaps(2) + Len(gaps)
                          <= MaxGapLinks
                    /\ req' = [req EXCEPT ![w] =
                                 [pc |-> "gaps", gaps |-> gaps, idx |-> 1,
                                  session |-> <<>>, flushed |-> 0,
                                  answer |-> CompetitorResponse(your_domain,
                                                                competitors, gaps)]]
                    /\ UNCHANGED resp
        /\ UNCHANGED <<store, imp, gaplinks, salt, gsc>>

\* One pass of `for gap in gaps`: the select (which first flushes the rows
\* added so far, and sees them and the committed rows, not the rows another
\* session has not committed) and the add when no row is found.
CompetitorAnalyzeGap(w) ==
    /\ req[w].pc = "gaps"
    /\ req[w].idx <= Len(req[w].gaps)
    /\ ~Blocked(w)
    /\ LET gap == req[w].gaps[req[w].idx]
           visible == gaplinks \o req[w].session
           existing == \E i \in DOMAIN visible :
                          visible[i].linking_domain = gap.linking_domain
       IN  req' = [req EXCEPT ![w] =
                     [@ EXCEPT !.flushed = Len(req[w].session),
                               !.session = IF existing THEN @ ELSE Append(@, gap),
                               !.idx = @ + 1]]
    /\ UNCHANGED <<store, imp, resp, args, gaplinks, salt, gsc>>

\* s.commit() and the return: the session's rows are stored together, or,
\* when the commit raises (dbok false), none and the request ends in 500.
CompetitorAnalyzeCommit(w, dbok) ==
    /\ req[w].pc = "gaps"
    /\ req[w].idx > Len(req[w].gaps)
    /\ ~Blocked(w)
    /\ IF dbok
       THEN /\ gaplinks' = gaplinks \o req[w].session
            /\ resp' = req[w].answer
       ELSE /\ resp' = HTTPError(500)
            /\ UNCHANGED gaplinks
    /\ req' = [req EXCEPT ![w] = [pc |-> "idle"]]
    /\ UNCHANGED <<store, imp, args, salt, gsc>>

\* The wait for the write lock times out ("database is locked"): the
\* exception is answered with a 500 and the session's rows are dropped.
CompetitorAnalyzeLocked(w) ==
    /\ Blocked(w)
    /\ resp' = HTTPError(500)
    /\ req' = [req EXCEPT ![w] = [pc |-> "idle"]]
    /\ UNCHANGED <<store, imp, args, gaplinks, salt, gsc>>

ConcurrentPayloads ==
    {Payload(PyStr(dMySite), PyList(<<dRival, dOther>>), PyInt(80)),
     Payload(PyStr(dMySite), PyList(<<dRival, dThird>>), PyInt(80)),
     Payload(None, None, PyStr(sAbc))}

(***************************************************************************)
(* Specification SpecConcurrent: competitor_analyze requests served by two *)
(* worker threads of one process, their statements interleaved.            *)
(***************************************************************************)
NextConcurrent ==
    \/ \E w \in Workers, payload \in ConcurrentPayloads :
           CompetitorAnalyzeStart(w, payload)
    \/ \E w \in Workers : CompetitorAnalyzeGap(w)
    \/ \E w \in Workers, dbok \in BOOLEAN : CompetitorAnalyzeCommit(w, dbok)
    \/ \E w \in Workers : CompetitorAnalyzeLocked(w)

SpecConcurrent == Init /\ [][NextConcurrent]_vars

\* C27: with competitor_analyze requests running concurrently, the
\* CompetitorGapLink table never holds two rows with the same linking_domain.
C27_ConcurrentOneRowPerDomain ==
    \A i, j \in DOMAIN gaplinks :
        gaplinks[i].linking_domain = gaplinks[j].linking_domain => i = j

====
